---- MODULE Spec2Model ----
(***************************************************************************)
(* Model of the MAAS browser-side object layer.                            *)
(*                                                                         *)
(*  Part I   the Item Store (Manager): collection, selection set, active   *)
(*           item, RPC completions and push notifications, with the two    *)
(*           node controllers that load and edit the active item.          *)
(*  Part II  the NodeStorageController: the filesystems / cache sets /     *)
(*           available sections derived from node.disks, their selection   *)
(*           flags and their modes.                                        *)
(*  Part III the specialised stores: the RPC methods of ControllersManager *)
(*           and MachinesManager over the RegionConnection, and the RAID   *)
(*           size calculation of the storage controller.                   *)
(*  Part IV  the maas-obj-form directive and the boot-images directive,    *)
(*           as their tests describe them.                                 *)
(*  Part V   the image selections of the boot-images directive.            *)
(*  Part VI  the action handlers of a tab of the nodes list.               *)
(*  Part VII the IP validators of ValidationService.                       *)
(*  Part VIII the boot disk of NodeStorageController.                      *)
(*  Part IX  the createPartition call of NodeStorageController.            *)
(*  Part X   the action of NodeDetailsController.                          *)
(***************************************************************************)
EXTENDS Integers, Sequences, FiniteSets, TLC

VARIABLES
    objs,          \* heap of Item objects: oid -> [pk, val]; pk = 0 is a free cell
    items,         \* Manager._items: sequence of oids (references)
    selected,      \* selection set: set of primary keys
    activeItem,    \* Manager._activeItem: oid, or 0 for null
    token,         \* request token of the latest setActiveItem call
    calls,         \* history of setActiveItem calls (in-flight get RPCs are its pending entries)
    updates,       \* in-flight update RPCs: the item data each one sent
    shadow,        \* reference collection: the received notifications applied one by one
    lastOp,        \* the store operation that ran last
    scopeNode,     \* NodeDetailsController $scope.node: oid, or 0 for null
    summary,       \* NodeDetailsController $scope.summary: [editing, selected]
    node,          \* NodeStorageController $scope.node, as far as storage reads it
    has_disks,     \* $scope.has_disks
    used,          \* $scope.used: the names of the devices in use
    filesystems,   \* $scope.filesystems: the rows of mounted filesystems
    filesystemsMap,         \* unique key -> row
    filesystemMode,
    filesystemAllSelected,
    cachesets,     \* $scope.cachesets
    cachesetsMap,
    cachesetsMode,
    cachesetsAllSelected,
    available,     \* $scope.available
    availableMap,
    availableMode,
    availableAllSelected,
    availableNew,  \* $scope.availableNew: the device(s) a new bcache, RAID or VG is made of
    handled,       \* number of storage handler calls so far
    rpcs,          \* RegionConnection.callMethod calls: [method, params, state, value, callback]
    managerCall,   \* the last store method called, with its arguments
    promise,       \* the promise that call returned: [rpc, then]
    power_state,   \* machine.power_state, by system_id
    consoleLog,    \* what console.log was called with
    notified,      \* the notifications published, with the stores whose onNotify ran
    raid,          \* the RAID being created: [level, devices, spares, size]
    formObj,       \* the object a maas-obj-form is over ($scope.obj)
    fields,        \* the fields of the form, by key: [value, editing, errors]
    form,          \* the form: [mode, saving, errors, afterSave, timer, calls, rejects, saves, rejection]; saves are the updateItem calls in flight
    source,        \* $scope.source of the boot-images directive
    fetches,       \* BootResourcesManager.fetch calls: [params, state]
    connectCalls,  \* number of connect() calls so far
    images,        \* the boot-images scope: [saving, stopping, other, other_images, isNew, selections, ubuntuImages, called, sent]
    imageRpcs,     \* BootResourcesManager methods called and in flight
    listTab,       \* a tab of the nodes list: [search, previous_search, actionOption, actionErrorCount, actionProgress, selectedItems, action_failed, threw]
    actionPromises, \* system_ids of the performAction promises in flight
    searchBefore,  \* history: the search the tab had before the first of the option selections just made, or "none"
    validation,    \* the last validateIPInRange call: [ipAddress, network, lowAddress, highAddress, result]
    bootDisk,      \* the last setAsBootDisk call: [section, item]
    bootDiskRpcs,  \* the block_ids MachinesManager.setBootDisk was called with
    partitionCall, \* the last availableConfirmPartition call: [at, disk, size, mountPoint]
    partitionRpcs,  \* the MachinesManager.createPartition calls: [block_id, bytes, params]
    details,       \* NodeDetailsController: [actionOption, actionError, location, threw, settled]
    detailRpcs     \* action names of the performAction calls of NodeDetailsController in flight

storeVars == <<objs, items, selected, activeItem, token, calls,
               updates, shadow, lastOp,
               scopeNode, summary>>

storageVars == <<node, has_disks, used,
                 filesystems, filesystemsMap, filesystemMode, filesystemAllSelected,
                 cachesets, cachesetsMap, cachesetsMode, cachesetsAllSelected,
                 available, availableMap, availableMode, availableAllSelected,
                 availableNew, handled>>

managerVars == <<rpcs, managerCall, promise, power_state, consoleLog, notified>>

raidVars == <<raid>>

formVars == <<formObj, fields, form>>

bootVars == <<source, fetches, connectCalls>>

imagesVars == <<images, imageRpcs>>

listVars == <<listTab, actionPromises, searchBefore>>

validationVars == <<validation>>

bootDiskVars == <<bootDisk, bootDiskRpcs>>

partitionVars == <<partitionCall, partitionRpcs>>

detailsVars == <<details, detailRpcs>>

uiVars == <<imagesVars, listVars, validationVars, bootDiskVars, partitionVars,
           detailsVars>>

extVars == <<managerVars, raidVars, formVars, bootVars, uiVars>>

vars == <<storeVars, storageVars, extVars>>

(***************************************************************************)
(* Bounds.                                                                 *)
(***************************************************************************)
NumKeys == 2        \* primary-key values 1..NumKeys
NumVals == 2        \* values of the one server-shaped field
MaxCalls == 2       \* setActiveItem calls in one run
MaxUpdates == 1     \* update RPCs in flight at once
MaxHandled == 5     \* storage handler calls in one run
NumSpecial == 2     \* special filesystems of a node
NumCacheSets == 2   \* cache sets of a node
MaxRpcs == 2        \* store method calls and notifications in one run
MaxDevices == 4     \* devices selected for a new RAID
MaxDeviceSize == 3  \* size of a device, in blocks
MaxSaves == 2       \* updateItem calls of a form in one run
MaxRejects == 1     \* rejected saves of a form in one run
MaxConnects == 3    \* connect() calls in one run
MaxImageRpcs == 2   \* BootResourcesManager calls in flight at once
NumNodes == 2       \* items of the nodes list
MaxPromises == 3    \* performAction promises in flight at once
StackDepth == 12    \* frames a handler may nest before a RangeError
MaxBootCalls == 3   \* setBootDisk calls in one run
MaxDetailRpcs == 2  \* performAction calls of the details page in flight at once

Keys == 1..NumKeys
Vals == 1..NumVals
Oids == 1..(NumKeys + 2)

\* History records of the last operation: what it was, on which key, and a
\* flag about the state it found.
Op(o, k, w) == [op |-> o, key |-> k, was |-> w]

NoOp == Op("none", 0, FALSE)

(***************************************************************************)
(* Part I.  Item Store.                                                    *)
(***************************************************************************)
Free == [pk |-> 0, val |-> 0]

Range(s) == {s[i] : i \in DOMAIN s}

\* Remove the element at index i of sequence s (Array.splice(i, 1)).
RemoveAt(s, i) == [j \in 1..(Len(s) - 1) |-> IF j < i THEN s[j] ELSE s[j + 1]]

\* Index of the item with primary key k in its, 0 when absent.
getIndexOfItem(o, its, k) ==
    IF \E i \in DOMAIN its : o[its[i]].pk = k
    THEN CHOOSE i \in DOMAIN its :
            /\ o[its[i]].pk = k
            /\ \A j \in DOMAIN its : o[its[j]].pk = k => i <= j
    ELSE 0

\* getItemFromList(key): the Item (its oid), or 0 for undefined.
getItemFromListIn(o, its, k) ==
    IF getIndexOfItem(o, its, k) = 0 THEN 0 ELSE its[getIndexOfItem(o, its, k)]

getItemFromList(k) == getItemFromListIn(objs, items, k)

getActiveItem == activeItem

isSelected(k) == k \in selected

\* A fresh object cell.
Alloc(o) == CHOOSE i \in Oids : o[i] = Free /\ \A j \in Oids : o[j] = Free => i <= j

CanAlloc(o) == \E i \in Oids : o[i] = Free

\* Cells no reference reaches are released.
Collect(o, its, act, scoped) ==
    [i \in Oids |-> IF i \in Range(its) \/ i = act \/ i = scoped THEN o[i] ELSE Free]

\* A reconciliation that replaces the object (used to show identity matters).
ReplaceItemFresh(st, data) ==
    LET idx == getIndexOfItem(st.objs, st.items, data.pk)
        new == Alloc(st.objs)
    IN  IF idx = 0
        THEN [objs |-> [st.objs EXCEPT ![new] = data], items |-> Append(st.items, new)]
        ELSE [objs |-> [st.objs EXCEPT ![new] = data],
              items |-> [st.items EXCEPT ![idx] = new]]

\* Reconciliation of one server item: update in place when the key is held,
\* insert at the end when it is new.  st = [objs, items].
ReplaceItem(st, data) ==
    LET idx == getIndexOfItem(st.objs, st.items, data.pk)
    IN  IF idx = 0
        THEN LET new == Alloc(st.objs)
             IN  [objs |-> [st.objs EXCEPT ![new] = data],
                  items |-> Append(st.items, new)]
        ELSE [objs |-> [st.objs EXCEPT ![st.items[idx]] = data], items |-> st.items]

\* Removal of the item with key k from the collection.
RemoveItem(st, k) ==
    LET idx == getIndexOfItem(st.objs, st.items, k)
    IN  IF idx = 0 THEN st ELSE [objs |-> st.objs, items |-> RemoveAt(st.items, idx)]

RECURSIVE ReconcileList(_, _)
ReconcileList(st, list) ==
    IF list = <<>> THEN st
    ELSE ReconcileList(ReplaceItem(st, Head(list)), Tail(list))

RECURSIVE RemoveAbsent(_, _, _)
RemoveAbsent(st, ks, keep) ==
    IF ks = {} THEN st
    ELSE LET k == CHOOSE x \in ks : TRUE
         IN  RemoveAbsent(IF k \in keep THEN st ELSE RemoveItem(st, k), ks \ {k}, keep)

Store == [objs |-> objs, items |-> items]

HeldKeys(o, its) == {o[its[i]].pk : i \in DOMAIN its}

\* Installs a new store state; unreachable cells are released.
Install(st, act, scoped) ==
    /\ items' = st.items
    /\ objs' = Collect(st.objs, st.items, act, scoped)

\* Lists the server can answer a list RPC with: one entry per key of a subset.
RECURSIVE ListOf(_, _)
ListOf(ks, f) ==
    IF ks = {} THEN <<>>
    ELSE LET k == CHOOSE x \in ks : \A y \in ks : x <= y
         IN  <<[pk |-> k, val |-> f[k]]>> \o ListOf(ks \ {k}, f)

ServerLists == UNION {{ListOf(ks, f) : f \in [ks -> Vals]} : ks \in SUBSET Keys}

ListKeys(list) == {list[i].pk : i \in DOMAIN list}


ItemData == [pk : Keys, val : Vals]

Actions == {"created", "updated", "deleted"}

\* fetchItems / loadItems: the list RPC resolved with `list`; `full` says the
\* fetch is authoritative, so items no longer present are removed, and with
\* them their selection-set entries.
FetchResolved(list, full) ==
    LET st1 == ReconcileList(Store, list)
        gone == IF full THEN HeldKeys(objs, items) \ ListKeys(list) ELSE {}
        st2 == RemoveAbsent(st1, HeldKeys(objs, items), HeldKeys(objs, items) \ gone)
    IN  /\ Cardinality(ListKeys(list) \ HeldKeys(objs, items)) <=
              Cardinality({i \in Oids : objs[i] = Free})
        /\ Install(st2, activeItem, scopeNode)
        /\ selected' = selected \ gone
        /\ UNCHANGED <<activeItem, token, calls, updates, scopeNode, summary>>

\* The list RPC failed: the error goes to the caller, the collection is left
\* unchanged.
FetchRejected ==
    UNCHANGED <<objs, items, selected, activeItem, token, calls, updates,
                scopeNode, summary>>

\* A create RPC resolved with the created item.
CreateResolved(data) ==
    /\ getItemFromList(data.pk) # 0 \/ CanAlloc(objs)
    /\ Install(ReplaceItem(Store, data), activeItem, scopeNode)
    /\ UNCHANGED <<selected, activeItem, token, calls, updates, scopeNode, summary>>

\* An updateItem that applies the edit locally before the server answers.
updateItemOptimistic(data, fromScope) ==
    /\ Cardinality(updates) < MaxUpdates
    /\ updates' = updates \cup {[pk |-> data.pk, val |-> data.val, scope |-> fromScope]}
    /\ objs' = IF getItemFromList(data.pk) = 0 THEN objs
               ELSE [objs EXCEPT ![getItemFromList(data.pk)].val = data.val]
    /\ UNCHANGED <<items, selected, activeItem, token, calls>>

\* updateItem(item): issues the update RPC with the item's field values.  The
\* stored Item is not touched until the server answers.
updateItem(data, fromScope) ==
    /\ Cardinality(updates) < MaxUpdates
    /\ updates' = updates \cup {[pk |-> data.pk, val |-> data.val, scope |-> fromScope]}
    /\ UNCHANGED <<objs, items, selected, activeItem, token, calls>>

\* updateSummary(): refresh the summary selection from $scope.node unless the
\* user is editing.
updateSummary(o, smry) ==
    IF smry.editing \/ scopeNode = 0 THEN smry
    ELSE [smry EXCEPT !.selected = o[scopeNode].val]

\* Some caller other than the node page (a form directive) updates an item.
UpdateItemCall(data) ==
    /\ getItemFromList(data.pk) # 0
    /\ updateItem(data, FALSE)
    /\ UNCHANGED <<scopeNode, summary>>

\* The update RPC resolved with the canonical item: it is reconciled in
\* place; updateNode's success handler refreshes the summary.
UpdateResolved(u, v) ==
    LET st == ReplaceItem(Store, [pk |-> u.pk, val |-> v]) IN
    /\ u \in updates
    /\ getItemFromList(u.pk) # 0 \/ CanAlloc(objs)
    /\ updates' = updates \ {u}
    /\ Install(st, activeItem, scopeNode)
    /\ summary' = IF u.scope THEN updateSummary(st.objs, summary) ELSE summary
    /\ UNCHANGED <<selected, activeItem, token, calls, scopeNode>>

\* The server rejected the update: the promise rejects with the error payload
\* and nothing is reconciled; updateNode's error handler logs the error and
\* refreshes the summary.
UpdateRejected(u) ==
    /\ u \in updates
    /\ updates' = updates \ {u}
    /\ summary' = IF u.scope THEN updateSummary(objs, summary) ELSE summary
    /\ UNCHANGED <<objs, items, selected, activeItem, token, calls, scopeNode>>

\* A removal that forgets the selection set.
DeleteResolvedKeepSelection(k) ==
    /\ Install(RemoveItem(Store, k), activeItem, scopeNode)
    /\ UNCHANGED <<selected, activeItem, token, calls, updates, scopeNode, summary>>

\* deleteItem / performAction("delete") resolved: the item leaves the
\* collection and the selection set.
DeleteResolved(k) ==
    /\ Install(RemoveItem(Store, k), activeItem, scopeNode)
    /\ selected' = selected \ {k}
    /\ UNCHANGED <<activeItem, token, calls, updates, scopeNode, summary>>

\* The delete RPC failed: the item remains unchanged.
DeleteRejected(k) ==
    UNCHANGED <<objs, items, selected, activeItem, token, calls, updates,
                scopeNode, summary>>

\* selectItem(key): selecting a key with no matching Item is a logged no-op.
selectItem(k) ==
    /\ selected' = IF getItemFromList(k) = 0 THEN selected ELSE selected \cup {k}
    /\ UNCHANGED <<objs, items, activeItem, token, calls, updates, scopeNode, summary>>

unselectItem(k) ==
    /\ selected' = selected \ {k}
    /\ UNCHANGED <<objs, items, activeItem, token, calls, updates, scopeNode, summary>>

\* A handler that drops an "updated" notification that directly follows a
\* notification for the same key (coalescing).
onNotifyCoalescing(action, data) ==
    IF action = "deleted"
    THEN /\ Install(RemoveItem(Store, data.pk), activeItem, scopeNode)
         /\ selected' = selected \ {data.pk}
         /\ UNCHANGED <<activeItem, token, calls, updates, scopeNode, summary>>
    ELSE IF action = "updated" /\ lastOp.op = "updated" /\ lastOp.key = data.pk
    THEN UNCHANGED <<objs, items, selected, activeItem, token, calls, updates,
                     scopeNode, summary>>
    ELSE /\ getItemFromList(data.pk) # 0 \/ CanAlloc(objs)
         /\ Install(ReplaceItem(Store, data), activeItem, scopeNode)
         /\ UNCHANGED <<selected, activeItem, token, calls, updates, scopeNode, summary>>

\* onNotify(action, data): the handler of one push notification, run when the
\* notification arrives.  created/updated reconcile the item; deleted removes
\* the item and its selection entry and ignores a key that is not held.
onNotify(action, data) ==
    IF action = "deleted"
    THEN /\ Install(RemoveItem(Store, data.pk), activeItem, scopeNode)
         /\ selected' = selected \ {data.pk}
         /\ UNCHANGED <<activeItem, token, calls, updates, scopeNode, summary>>
    ELSE /\ getItemFromList(data.pk) # 0 \/ CanAlloc(objs)
         /\ Install(ReplaceItem(Store, data), activeItem, scopeNode)
         /\ UNCHANGED <<selected, activeItem, token, calls, updates, scopeNode, summary>>

\* Indices of the setActiveItem calls whose get RPC is still in flight.
PendingCalls == {i \in DOMAIN calls : calls[i].done = "pending"}

Settled == Cardinality({i \in DOMAIN calls : calls[i].at > 0})

\* setActiveItem(key): a key held locally is made active at once; otherwise a
\* get RPC is issued under a new request token.
setActiveItem(k) ==
    LET local == getItemFromList(k) IN
    /\ Len(calls) < MaxCalls
    /\ token' = token + 1
    /\ IF local # 0
       THEN /\ activeItem' = local
            /\ scopeNode' = local          \* .then(nodeLoaded)
            /\ calls' = Append(calls, [key |-> k, tok |-> token + 1, rpc |-> FALSE,
                                       done |-> "ok", over |-> {}, at |-> 0])
       ELSE /\ activeItem' = activeItem
            /\ scopeNode' = 0
            /\ calls' = Append(calls, [key |-> k, tok |-> token + 1, rpc |-> TRUE,
                                       done |-> "pending", over |-> PendingCalls,
                                       at |-> 0])

\* The controller of a node page (NodeDetailsController, NodeResultController)
\* is constructed on a new scope for route parameter system_id = k: the active
\* item is reused when it is that node, otherwise setActiveItem(k) is called.
ControllerLoad(k) ==
    /\ IF activeItem # 0 /\ objs[activeItem].pk = k
       THEN /\ scopeNode' = activeItem     \* nodeLoaded(activeNode)
            /\ UNCHANGED <<activeItem, token, calls>>
       ELSE setActiveItem(k)
    /\ summary' = [editing |-> FALSE,
                   selected |-> IF scopeNode' = 0 THEN 0 ELSE objs[scopeNode'].val]
    /\ updates' = {[u EXCEPT !.scope = FALSE] : u \in updates}
    /\ items' = items
    /\ objs' = Collect(objs, items, activeItem', scopeNode')
    /\ UNCHANGED selected

\* Resolution of the get RPC of call i without the token comparison.
GetResolvedNoToken(i, v) ==
    LET st == ReplaceItem(Store, [pk |-> calls[i].key, val |-> v])
        ref == getItemFromListIn(st.objs, st.items, calls[i].key)
    IN  /\ i \in PendingCalls
        /\ getItemFromList(calls[i].key) # 0 \/ CanAlloc(objs)
        /\ calls' = [calls EXCEPT ![i].done = "ok", ![i].at = Settled + 1]
        /\ activeItem' = ref
        /\ scopeNode' = ref
        /\ summary' = [editing |-> FALSE, selected |-> v]
        /\ Install(st, ref, ref)
        /\ UNCHANGED <<selected, token, updates>>

\* The get RPC of call i resolved with the item [key, v].  The result is
\* stored and becomes the active item only when the call's token is still the
\* latest one; a superseded result is discarded.
GetResolved(i, v) ==
    LET st == ReplaceItem(Store, [pk |-> calls[i].key, val |-> v])
        ref == getItemFromListIn(st.objs, st.items, calls[i].key)
    IN  /\ i \in PendingCalls
        /\ calls' = [calls EXCEPT ![i].done = "ok", ![i].at = Settled + 1]
        /\ IF calls[i].tok = token
           THEN /\ getItemFromList(calls[i].key) # 0 \/ CanAlloc(objs)
                /\ activeItem' = ref
                /\ scopeNode' = ref        \* .then(nodeLoaded)
                /\ summary' = [editing |-> FALSE, selected |-> v]
                /\ Install(st, ref, ref)
           ELSE UNCHANGED <<objs, items, activeItem, scopeNode, summary>>
        /\ UNCHANGED <<selected, token, updates>>

\* The get RPC of call i failed: ErrorService.raiseError(error).
GetRejected(i) ==
    /\ i \in PendingCalls
    /\ calls' = [calls EXCEPT ![i].done = "fail", ![i].at = Settled + 1]
    /\ UNCHANGED <<objs, items, selected, activeItem, token, updates, scopeNode, summary>>

\* $scope.editSummary(): enter edit mode in the summary section.
editSummary ==
    /\ scopeNode # 0
    /\ ~summary.editing
    /\ summary' = [summary EXCEPT !.editing = TRUE]
    /\ UNCHANGED <<objs, items, selected, activeItem, token, calls, updates, scopeNode>>

\* The user picks a value in the summary form (0 is the empty choice).
SelectSummary(v) ==
    /\ summary.editing
    /\ summary.selected # v
    /\ summary' = [summary EXCEPT !.selected = v]
    /\ UNCHANGED <<objs, items, selected, activeItem, token, calls, updates, scopeNode>>

\* $scope.cancelEditSummary()
cancelEditSummary ==
    /\ scopeNode # 0
    /\ summary.editing
    /\ summary' = updateSummary(objs, [summary EXCEPT !.editing = FALSE])
    /\ UNCHANGED <<objs, items, selected, activeItem, token, calls, updates, scopeNode>>

\* saveEditSummary with the edits written to $scope.node itself, not a copy.
saveEditSummaryNoCopy ==
    /\ scopeNode # 0
    /\ summary.editing
    /\ summary.selected # 0
    /\ Cardinality(updates) < MaxUpdates
    /\ summary' = [summary EXCEPT !.editing = FALSE]
    /\ objs' = [objs EXCEPT ![scopeNode].val = summary.selected]
    /\ updates' = updates \cup
          {[pk |-> objs[scopeNode].pk, val |-> summary.selected, scope |-> TRUE]}
    /\ UNCHANGED <<items, selected, activeItem, token, calls, scopeNode>>

\* $scope.saveEditSummary(): nothing when the selection is invalid; otherwise
\* the node is copied, the copy is edited and passed to updateNode, which
\* calls nodesManager.updateItem(copy).
saveEditSummary ==
    /\ scopeNode # 0
    /\ summary.editing
    /\ IF summary.selected = 0
       THEN UNCHANGED <<objs, items, selected, activeItem, token, calls, updates,
                        scopeNode, summary>>
       ELSE /\ summary' = [summary EXCEPT !.editing = FALSE]
            /\ updateItem([pk |-> objs[scopeNode].pk, val |-> summary.selected], TRUE)
            /\ scopeNode' = scopeNode

(***************************************************************************)
(* Reference semantics of the notification stream: a plain list of         *)
(* [pk, val] records, with no object identity.                             *)
(***************************************************************************)
ShadowIndex(sh, k) ==
    IF \E i \in DOMAIN sh : sh[i].pk = k
    THEN CHOOSE i \in DOMAIN sh : sh[i].pk = k /\ \A j \in DOMAIN sh : sh[j].pk = k => i <= j
    ELSE 0

ApplyNote(sh, action, data) ==
    LET i == ShadowIndex(sh, data.pk) IN
    IF action = "deleted"
    THEN (IF i = 0 THEN sh ELSE RemoveAt(sh, i))
    ELSE (IF i = 0 THEN Append(sh, data) ELSE [sh EXCEPT ![i] = data])

\* The collection as data: what getItems() shows, field by field.
Contents == [i \in DOMAIN items |-> objs[items[i]]]

histVars == <<shadow, lastOp>>

(***************************************************************************)
(* Part II.  NodeStorageController.                                        *)
(*                                                                         *)
(* Sizes are counted in MiB.  null and undefined identifiers are 0; names  *)
(* and mount points are sequences of tokens, "" being the empty sequence.  *)
(* A row of a section is a record; the $selected and $options fields are   *)
(* called selected and options.  The object $options holds is kept by its  *)
(* shape: "{}", or the shape the handler that entered a mode gave it.      *)
(* What the user types into the form fields of a row or of availableNew    *)
(* is an input of the confirm handler that reads it.                       *)
(***************************************************************************)
INITIAL_PARTITION_OFFSET == 4

END_OF_PARTITION_TABLE_SPACE == 1

PARTITION_TABLE_EXTRA_SPACE == INITIAL_PARTITION_OFFSET + END_OF_PARTITION_TABLE_SPACE

PREP_PARTITION_SIZE == 8

PARTITION_ALIGNMENT_SIZE == 4

MIN_PARTITION_SIZE == PARTITION_ALIGNMENT_SIZE

SELECTION_MODE ==
    [NONE |-> "null", SINGLE |-> "single", MUTLI |-> "multi",
     UNMOUNT |-> "unmount", UNFORMAT |-> "unformat", DELETE |-> "delete",
     FORMAT_AND_MOUNT |-> "format-mount", PARTITION |-> "partition",
     BCACHE |-> "bcache", RAID |-> "raid", VOLUME_GROUP |-> "volume-group",
     LOGICAL_VOLUME |-> "logical-volume"]

\* ---- the node objects the server can send --------------------------------
NoFilesystem ==
    [isObject |-> FALSE, fstype |-> "", mount_point |-> <<>>, is_format_fstype |-> FALSE]

Ext4(mp) ==
    [isObject |-> TRUE, fstype |-> "ext4", mount_point |-> mp, is_format_fstype |-> TRUE]

BlockDevice(id, name, type, fs, parts, size, table) ==
    [id |-> id, name |-> name, type |-> type, filesystem |-> fs, partitions |-> parts,
     available_size |-> size, partition_table_type |-> table]

sda(fs) == BlockDevice(1, <<"sda">>, "physical", fs, <<>>, 16, "")

part1(fs) == BlockDevice(1, <<"sdb", "-", "part1">>, "partition", fs, <<>>, 8, "")

sdb(fs) == BlockDevice(2, <<"sdb">>, "physical", NoFilesystem, <<part1(fs)>>, 0, "gpt")

vg0 == BlockDevice(3, <<"vg0">>, "lvm-vg", NoFilesystem, <<>>, 16, "")

CacheSetDisks(n) ==
    [c \in 1..n |-> BlockDevice(3 + c, [t \in 1..c |-> "cache-set"], "cache-set",
                                 NoFilesystem, <<>>, 0, "")]

SpecialFilesystems(n) ==
    [s \in 1..n |-> [fstype |-> "tmpfs", mount_point |-> <<"/">> \o [t \in 1..s |-> "tmp"]]]

NodeObject(status, isArray, disks, special) ==
    [isObject |-> TRUE, status |-> status, architecture |-> "amd64/generic",
     disksIsArray |-> isArray, disks |-> disks, special_filesystems |-> special]

\* $scope.node before the parent controller has loaded it.
NoNode ==
    [isObject |-> FALSE, status |-> "", architecture |-> "",
     disksIsArray |-> FALSE, disks |-> <<>>, special_filesystems |-> <<>>]

\* A free disk and the special filesystems.
NodeSpecial ==
    NodeObject("Ready", TRUE, <<sda(NoFilesystem)>>, SpecialFilesystems(NumSpecial))

\* Everything mounted, and the cache sets.
NodeMounted ==
    NodeObject("Allocated", TRUE,
               <<sda(Ext4(<<"/">>)), sdb(Ext4(<<"/", "srv">>))>> \o CacheSetDisks(NumCacheSets),
               <<>>)

\* Free devices and one cache set.
NodeFree ==
    NodeObject("Ready", TRUE,
               <<sda(NoFilesystem), sdb(NoFilesystem)>> \o CacheSetDisks(1), <<>>)

\* A deployed node: a formatted disk and a volume group.
NodeDeployed ==
    NodeObject("Deployed", TRUE, <<sda(Ext4(<<>>)), vg0>>, <<>>)

\* A node whose disks have not arrived.
NodeNoDisks == NodeObject("Ready", FALSE, <<>>, <<>>)

Nodes == {NodeSpecial, NodeMounted, NodeFree, NodeDeployed, NodeNoDisks}

\* ---- helpers -------------------------------------------------------------
RECURSIVE Concat(_)
Concat(ss) == IF ss = <<>> THEN <<>> ELSE Head(ss) \o Concat(Tail(ss))

RECURSIVE SortedSeq(_)
SortedSeq(S) ==
    IF S = {} THEN <<>>
    ELSE LET m == CHOOSE x \in S : \A y \in S : x <= y
         IN <<m>> \o SortedSeq(S \ {m})

isMountedFilesystem(filesystem) ==
    filesystem.isObject /\ filesystem.mount_point # <<>>

hasMountedFilesystem(item) == isMountedFilesystem(item.filesystem)

\* The fstype, or "" for null.
hasFormattedUnmountedFilesystem(item) ==
    IF /\ item.filesystem.isObject
       /\ item.filesystem.fstype # ""
       /\ item.filesystem.mount_point = <<>>
    THEN item.filesystem.fstype
    ELSE ""

isInUse(item) ==
    IF item.type = "cache-set" THEN TRUE
    ELSE IF item.filesystem.isObject
         THEN IF item.filesystem.is_format_fstype /\ item.filesystem.mount_point # <<>>
              THEN TRUE
              ELSE IF ~item.filesystem.is_format_fstype THEN TRUE ELSE FALSE
         ELSE item.available_size < MIN_PARTITION_SIZE

\* type + "-" + block_id [+ "-" + partition_id], as the triple of its parts;
\* a null block_id prints as "null" (0 here), a null partition_id adds nothing.
getUniqueKey(disk) ==
    IF disk.type = "cache-set"
    THEN <<"cache-set", disk.cache_set_id, 0>>
    ELSE <<disk.type, disk.block_id, disk.partition_id>>

\* ---- rows, and the maps from unique key to row ----------------------------
FilesystemRow(block, part, original_type) ==
    [type |-> "filesystem", block_id |-> block, partition_id |-> part,
     original_type |-> original_type, selected |-> FALSE]

CacheSetRow(id) == [type |-> "cache-set", cache_set_id |-> id, selected |-> FALSE]

AvailableRow(item, block, part, has_partitions) ==
    [type |-> item.type, name |-> item.name, block_id |-> block, partition_id |-> part,
     fstype |-> hasFormattedUnmountedFilesystem(item), has_partitions |-> has_partitions,
     available_size |-> item.available_size,
     partition_table_type |-> item.partition_table_type,
     selected |-> FALSE, options |-> "{}"]

\* A map entry refers to a row of the list (idx > 0), or to a row object that
\* has been spliced out of the list (idx = 0) and keeps the state it had.
Live(i) == [idx |-> i, selected |-> FALSE, options |-> "{}"]

Detached(sel, opts) == [idx |-> 0, selected |-> sel, options |-> opts]

\* map[getUniqueKey(row)] = row for each row in turn: the last row of a key stays.
MapOf(rows) ==
    [k \in {getUniqueKey(rows[i]) : i \in DOMAIN rows} |->
        Live(CHOOSE i \in DOMAIN rows :
                /\ getUniqueKey(rows[i]) = k
                /\ \A j \in DOMAIN rows : getUniqueKey(rows[j]) = k => j <= i)]

isObjectIn(map, key) == key \in DOMAIN map

OldSelected(map, rows, key) ==
    IF map[key].idx > 0 THEN rows[map[key].idx].selected ELSE map[key].selected

OldOptions(map, rows, key) ==
    IF map[key].idx > 0 THEN rows[map[key].idx].options ELSE map[key].options

\* The map after rows.splice(i, 1): the entries are not removed.
SpliceMap(map, i, sel, opts) ==
    [k \in DOMAIN map |->
        IF map[k].idx = i THEN Detached(sel, opts)
        ELSE IF map[k].idx > i THEN [map[k] EXCEPT !.idx = @ - 1]
        ELSE map[k]]

deselectAll(rows) == [j \in DOMAIN rows |-> [rows[j] EXCEPT !.selected = FALSE]]

SelectedIndexes(rows) == SortedSeq({i \in DOMAIN rows : rows[i].selected})

SelectedCount(rows) == Len(SelectedIndexes(rows))

\* The mode an update*Selection(force) call leaves.
SelectionMode(mode, rows, force) ==
    IF SelectedCount(rows) = 0 THEN SELECTION_MODE.NONE
    ELSE IF SelectedCount(rows) = 1 /\ force THEN SELECTION_MODE.SINGLE
    ELSE IF force THEN SELECTION_MODE.MUTLI
    ELSE mode

\* The all-selected flag an update*Selection call leaves.
AllSelected(rows) ==
    IF Len(rows) = 0 THEN FALSE
    ELSE IF SelectedCount(rows) = Len(rows) THEN TRUE
    ELSE FALSE

\* ---- references held by availableNew --------------------------------------
Undefined == [defined |-> FALSE, idx |-> 0, key |-> <<"", 0, 0>>]

Ref(rows, i) == [defined |-> TRUE, idx |-> i, key |-> getUniqueKey(rows[i])]

EmptyNew == [kind |-> "{}", device |-> Undefined, devices |-> <<>>]

SpliceRef(r, i) ==
    IF r.idx = i THEN [r EXCEPT !.idx = 0]
    ELSE IF r.idx > i THEN [r EXCEPT !.idx = @ - 1]
    ELSE r

\* [rows, map, new] after available.splice(i, 1); i = 0 stands for the index
\* -1 that indexOf gives for an object not in the list: splice(-1, 1) removes
\* the last row.
SpliceAvailable(st, i) ==
    LET at == IF i = 0 THEN Len(st.rows) ELSE i IN
    IF at = 0 THEN st
    ELSE [rows |-> RemoveAt(st.rows, at),
          map  |-> SpliceMap(st.map, at, st.rows[at].selected, st.rows[at].options),
          new  |-> [st.new EXCEPT
                       !.device  = SpliceRef(@, at),
                       !.devices = [d \in DOMAIN @ |-> SpliceRef(@[d], at)]]]

RECURSIVE SpliceLast(_, _)
SpliceLast(st, n) == IF n = 0 THEN st ELSE SpliceLast(SpliceAvailable(st, 0), n - 1)

AvailableState == [rows |-> available, map |-> availableMap, new |-> availableNew]

\* ---- text typed by the user ----------------------------------------------
MountPoints == {<<>>, <<"none">>, <<"/", "mnt">>, <<"mnt">>}

Fstypes == {"", "ext4"}

NewNames == {<<>>, <<"md0">>, <<"sda">>}

UndefinedName == <<"undefined">>

LogicalVolumeNames == {<<"vg0", "-", "lv0">>, <<"vg0", "-">>, <<"lv0">>}

\* A typed size: the bytes unitsToBytes gives for it (0: not a number), what
\* roundUnits gives for it, and whether it is the prefilled default.
SizeEntry(bytes, rounded, prefilled) ==
    [bytes |-> bytes, rounded |-> rounded, prefilled |-> prefilled]

Sizes ==
    {SizeEntry(0, 0, FALSE), SizeEntry(4, 4, FALSE), SizeEntry(17, 16, FALSE),
     SizeEntry(64, 64, FALSE), SizeEntry(16, 16, TRUE)}

isMountPointInvalid(mountPoint) ==
    IF mountPoint = <<>> THEN FALSE
    ELSE IF mountPoint = <<"none">> THEN FALSE
    ELSE IF mountPoint[1] # "/" THEN TRUE
    ELSE FALSE

NamesOf(n) ==
    {n.disks[i].name : i \in DOMAIN n.disks}
        \cup UNION {{n.disks[i].partitions[j].name : j \in DOMAIN n.disks[i].partitions}
                        : i \in DOMAIN n.disks}

isNameAlreadyInUse(name) == node.disksIsArray /\ name \in NamesOf(node)

isNewDiskNameInvalid(name) ==
    IF ~node.isObject \/ ~node.disksIsArray THEN TRUE
    ELSE IF name = <<>> THEN TRUE
    ELSE name \in NamesOf(node)

isSuperUser == TRUE

isAllStorageDisabled ==
    IF ~node.isObject THEN TRUE
    ELSE IF node.status \notin {"Ready", "Allocated"} THEN TRUE
    ELSE FALSE

hasUnmountedFilesystem(disk) == disk.fstype # ""

roundByBlockSize(bytes, block) == (bytes \div block) * block

availablePartitionSpace(disk) ==
    LET space_to_reserve ==
            IF disk.partition_table_type = ""
            THEN PARTITION_TABLE_EXTRA_SPACE
                     + (IF node.architecture = "ppc64el/generic"
                        THEN PREP_PARTITION_SIZE ELSE 0)
            ELSE 0
    IN roundByBlockSize(disk.available_size - space_to_reserve, PARTITION_ALIGNMENT_SIZE)

isAddPartitionSizeInvalid(disk, size) ==
    IF disk.options \notin {"partition", "logical-volume"} \/ size.bytes = 0 THEN TRUE
    ELSE IF size.bytes < MIN_PARTITION_SIZE THEN TRUE
    ELSE IF size.bytes > disk.available_size
         THEN IF size.rounded > disk.available_size THEN TRUE ELSE FALSE
    ELSE FALSE

isLogicalVolumeNameInvalid(disk, name) ==
    IF disk.options # "logical-volume" THEN FALSE
    ELSE \/ Len(name) < Len(disk.name) + 1
         \/ SubSeq(name, 1, Len(disk.name) + 1) # disk.name \o <<"-">>
         \/ Len(name) <= Len(disk.name) + 1
         \/ isNameAlreadyInUse(name)

\* ---- updateDisks: the lists derived from node.disks -----------------------
nodeVars == <<node, has_disks, used>>

filesystemVars == <<filesystems, filesystemsMap, filesystemMode, filesystemAllSelected>>

cachesetsVars == <<cachesets, cachesetsMap, cachesetsMode, cachesetsAllSelected>>

availableVars ==
    <<available, availableMap, availableMode, availableAllSelected, availableNew>>

updateFilesystemSelection(rows, mode, force) ==
    /\ filesystemMode' = SelectionMode(mode, rows, force)
    /\ filesystemAllSelected' = AllSelected(rows)

updateCacheSetsSelection(rows, mode, force) ==
    /\ cachesetsMode' = SelectionMode(mode, rows, force)
    /\ cachesetsAllSelected' = AllSelected(rows)

\* updateAvailableSelection that sets the mode by the count whatever force is.
updateAvailableSelectionForced(rows, mode, force) ==
    /\ availableMode' = SelectionMode(mode, rows, TRUE)
    /\ availableAllSelected' = AllSelected(rows)

updateAvailableSelection(rows, mode, force) ==
    /\ availableMode' = SelectionMode(mode, rows, force)
    /\ availableAllSelected' = AllSelected(rows)

FilesystemsOf(n) ==
    Concat([i \in DOMAIN n.disks |->
        LET disk == n.disks[i] IN
        (IF hasMountedFilesystem(disk)
         THEN <<FilesystemRow(disk.id, 0, disk.type)>> ELSE <<>>)
        \o Concat([j \in DOMAIN disk.partitions |->
              IF hasMountedFilesystem(disk.partitions[j])
              THEN <<FilesystemRow(disk.id, disk.partitions[j].id, "partition")>>
              ELSE <<>>])])
    \o [s \in DOMAIN n.special_filesystems |-> FilesystemRow(0, 0, "special")]

updateFilesystems(n) ==
    LET new == FilesystemsOf(n)
        rows == [i \in DOMAIN new |->
                    LET key == getUniqueKey(new[i]) IN
                    IF isObjectIn(filesystemsMap, key)
                    THEN [new[i] EXCEPT
                            !.selected = OldSelected(filesystemsMap, filesystems, key)]
                    ELSE new[i]]
    IN /\ filesystems' = rows
       /\ filesystemsMap' = MapOf(rows)
       /\ updateFilesystemSelection(rows, filesystemMode, FALSE)

CacheSetsOf(n) ==
    Concat([i \in DOMAIN n.disks |->
        IF n.disks[i].type = "cache-set" THEN <<CacheSetRow(n.disks[i].id)>> ELSE <<>>])

updateCacheSets(n) ==
    LET new == CacheSetsOf(n)
        rows == [i \in DOMAIN new |->
                    LET key == getUniqueKey(new[i]) IN
                    IF isObjectIn(cachesetsMap, key)
                    THEN [new[i] EXCEPT
                            !.selected = OldSelected(cachesetsMap, cachesets, key)]
                    ELSE new[i]]
    IN /\ cachesets' = rows
       /\ cachesetsMap' = MapOf(rows)
       /\ updateCacheSetsSelection(rows, cachesetsMode, FALSE)

AvailableOf(n) ==
    Concat([i \in DOMAIN n.disks |->
        LET disk == n.disks[i] IN
        (IF ~isInUse(disk)
         THEN <<AvailableRow(disk, disk.id, 0, Len(disk.partitions) > 0)>> ELSE <<>>)
        \o Concat([j \in DOMAIN disk.partitions |->
              IF ~isInUse(disk.partitions[j])
              THEN <<AvailableRow(disk.partitions[j], disk.id, disk.partitions[j].id, FALSE)>>
              ELSE <<>>])])

updateAvailable(n) ==
    LET new == AvailableOf(n)
        rows == [i \in DOMAIN new |->
                    LET key == getUniqueKey(new[i]) IN
                    IF isObjectIn(availableMap, key)
                    THEN [new[i] EXCEPT
                            !.selected = OldSelected(availableMap, available, key),
                            !.options = OldOptions(availableMap, available, key)]
                    ELSE new[i]]
        map == MapOf(rows)
        Fresh(r) == IF isObjectIn(map, r.key)
                    THEN [defined |-> TRUE, idx |-> map[r.key].idx, key |-> r.key]
                    ELSE Undefined
        kept == SelectSeq(availableNew.devices, LAMBDA r : isObjectIn(map, r.key))
    IN /\ available' = rows
       /\ availableMap' = map
       /\ availableNew' =
            IF availableNew.device.defined
            THEN [availableNew EXCEPT !.device = Fresh(@)]
            ELSE IF availableNew.kind \in {"raid", "volume-group"}
                 THEN [availableNew EXCEPT !.devices = [d \in DOMAIN kept |-> Fresh(kept[d])]]
                 ELSE availableNew
       /\ updateAvailableSelection(rows, availableMode, FALSE)

UsedOf(n) ==
    Concat([i \in DOMAIN n.disks |->
        LET disk == n.disks[i] IN
        (IF isInUse(disk) /\ disk.type # "cache-set" THEN <<disk.name>> ELSE <<>>)
        \o Concat([j \in DOMAIN disk.partitions |->
              IF isInUse(disk.partitions[j]) THEN <<disk.partitions[j].name>> ELSE <<>>])])

\* updateUsed without the test that leaves the cache sets out.
updateUsedWithCacheSets(n) ==
    used' = Concat([i \in DOMAIN n.disks |->
                IF isInUse(n.disks[i]) THEN <<n.disks[i].name>> ELSE <<>>])

updateUsed(n) == used' = UsedOf(n)

\* The watch on node.disks fires: the node object now holds n.
updateDisks(n) ==
    /\ node' = n
    /\ IF n.disksIsArray
       THEN /\ has_disks' = (Len(n.disks) > 0)
            /\ updateFilesystems(n)
            /\ updateCacheSets(n)
            /\ updateAvailable(n)
            /\ updateUsed(n)
       ELSE /\ has_disks' = FALSE
            /\ filesystems' = <<>>
            /\ filesystemsMap' = <<>>
            /\ filesystemMode' = SELECTION_MODE.NONE
            /\ filesystemAllSelected' = FALSE
            /\ cachesets' = <<>>
            /\ cachesetsMap' = <<>>
            /\ cachesetsMode' = SELECTION_MODE.NONE
            /\ cachesetsAllSelected' = FALSE
            /\ available' = <<>>
            /\ availableMap' = <<>>
            /\ availableMode' = SELECTION_MODE.NONE
            /\ availableAllSelected' = FALSE
            /\ availableNew' = EmptyNew
            /\ used' = <<>>

\* ---- the filesystems section ---------------------------------------------
toggleFilesystemSelectUnforced(i) ==
    LET rows == [filesystems EXCEPT ![i].selected = ~@] IN
    /\ filesystems' = rows
    /\ updateFilesystemSelection(rows, filesystemMode, FALSE)
    /\ UNCHANGED <<filesystemsMap, nodeVars, cachesetsVars, availableVars>>

toggleFilesystemSelect(i) ==
    LET rows == [filesystems EXCEPT ![i].selected = ~@] IN
    /\ filesystems' = rows
    /\ updateFilesystemSelection(rows, filesystemMode, TRUE)
    /\ UNCHANGED <<filesystemsMap, nodeVars, cachesetsVars, availableVars>>

toggleFilesystemAllSelect ==
    LET rows == [j \in DOMAIN filesystems |->
                    [filesystems[j] EXCEPT !.selected = ~filesystemAllSelected]] IN
    /\ filesystems' = rows
    /\ updateFilesystemSelection(rows, filesystemMode, TRUE)
    /\ UNCHANGED <<filesystemsMap, nodeVars, cachesetsVars, availableVars>>

filesystemCancel ==
    /\ updateFilesystemSelection(filesystems, filesystemMode, TRUE)
    /\ UNCHANGED <<filesystems, filesystemsMap, nodeVars, cachesetsVars, availableVars>>

filesystemUnmount ==
    /\ filesystemMode' = SELECTION_MODE.UNMOUNT
    /\ UNCHANGED <<filesystems, filesystemsMap, filesystemAllSelected,
                   nodeVars, cachesetsVars, availableVars>>

quickFilesystemUnmount(i) ==
    LET rows == [deselectAll(filesystems) EXCEPT ![i].selected = TRUE] IN
    /\ filesystems' = rows
    /\ filesystemAllSelected' = AllSelected(rows)
    /\ filesystemMode' = SELECTION_MODE.UNMOUNT
    /\ UNCHANGED <<filesystemsMap, nodeVars, cachesetsVars, availableVars>>

\* filesystems.splice(idx, 1), then updateFilesystemSelection().
FilesystemConfirm(i) ==
    LET rows == RemoveAt(filesystems, i) IN
    /\ filesystems' = rows
    /\ filesystemsMap' = SpliceMap(filesystemsMap, i, filesystems[i].selected, "{}")
    /\ updateFilesystemSelection(rows, filesystemMode, FALSE)
    /\ UNCHANGED <<nodeVars, cachesetsVars, availableVars>>

filesystemConfirmUnmount(i) == FilesystemConfirm(i)

filesystemDelete ==
    /\ filesystemMode' = SELECTION_MODE.DELETE
    /\ UNCHANGED <<filesystems, filesystemsMap, filesystemAllSelected,
                   nodeVars, cachesetsVars, availableVars>>

quickFilesystemDelete(i) ==
    LET rows == [deselectAll(filesystems) EXCEPT ![i].selected = TRUE] IN
    /\ filesystems' = rows
    /\ filesystemAllSelected' = AllSelected(rows)
    /\ filesystemMode' = SELECTION_MODE.DELETE
    /\ UNCHANGED <<filesystemsMap, nodeVars, cachesetsVars, availableVars>>

\* A row pushed by availableConfirmFormatAndMount has no original: reading
\* filesystem.original.id throws before anything is changed.
filesystemConfirmDelete(i) ==
    /\ filesystems[i].original_type # "undefined"
    /\ FilesystemConfirm(i)

\* ---- the cache sets section ----------------------------------------------
toggleCacheSetSelect(i) ==
    LET rows == [cachesets EXCEPT ![i].selected = ~@] IN
    /\ cachesets' = rows
    /\ updateCacheSetsSelection(rows, cachesetsMode, TRUE)
    /\ UNCHANGED <<cachesetsMap, nodeVars, filesystemVars, availableVars>>

toggleCacheSetAllSelect ==
    LET rows == [j \in DOMAIN cachesets |->
                    [cachesets[j] EXCEPT !.selected = ~cachesetsAllSelected]] IN
    /\ cachesets' = rows
    /\ updateCacheSetsSelection(rows, cachesetsMode, TRUE)
    /\ UNCHANGED <<cachesetsMap, nodeVars, filesystemVars, availableVars>>

cacheSetCancel ==
    /\ updateCacheSetsSelection(cachesets, cachesetsMode, TRUE)
    /\ UNCHANGED <<cachesets, cachesetsMap, nodeVars, filesystemVars, availableVars>>

cacheSetDelete ==
    /\ cachesetsMode' = SELECTION_MODE.DELETE
    /\ UNCHANGED <<cachesets, cachesetsMap, cachesetsAllSelected,
                   nodeVars, filesystemVars, availableVars>>

quickCacheSetDelete(i) ==
    LET rows == [deselectAll(cachesets) EXCEPT ![i].selected = TRUE] IN
    /\ cachesets' = rows
    /\ cachesetsAllSelected' = AllSelected(rows)
    /\ cachesetsMode' = SELECTION_MODE.DELETE
    /\ UNCHANGED <<cachesetsMap, nodeVars, filesystemVars, availableVars>>

cacheSetConfirmDelete(i) ==
    LET rows == RemoveAt(cachesets, i) IN
    /\ cachesets' = rows
    /\ cachesetsMap' = SpliceMap(cachesetsMap, i, cachesets[i].selected, "{}")
    /\ updateCacheSetsSelection(rows, cachesetsMode, FALSE)
    /\ UNCHANGED <<nodeVars, filesystemVars, availableVars>>

\* ---- the available section -----------------------------------------------
isAvailableDisabled ==
    \/ availableMode \notin
           {SELECTION_MODE.NONE, SELECTION_MODE.SINGLE, SELECTION_MODE.MUTLI}
    \/ isAllStorageDisabled

\* Install [rows, map, new] and call updateAvailableSelection(true).
AvailableUpdated(st) ==
    /\ available' = st.rows
    /\ availableMap' = st.map
    /\ availableNew' = st.new
    /\ updateAvailableSelection(st.rows, availableMode, TRUE)

toggleAvailableSelect(i) ==
    LET rows == [available EXCEPT ![i].selected = ~@] IN
    /\ available' = rows
    /\ updateAvailableSelection(rows, availableMode, TRUE)
    /\ UNCHANGED <<availableMap, availableNew, nodeVars, filesystemVars, cachesetsVars>>

toggleAvailableAllSelect ==
    LET rows == [j \in DOMAIN available |->
                    [available[j] EXCEPT !.selected = ~availableAllSelected]] IN
    /\ available' = rows
    /\ updateAvailableSelection(rows, availableMode, TRUE)
    /\ UNCHANGED <<availableMap, availableNew, nodeVars, filesystemVars, cachesetsVars>>

availableCancel ==
    /\ updateAvailableSelection(available, availableMode, TRUE)
    /\ availableNew' = EmptyNew
    /\ UNCHANGED <<available, availableMap, nodeVars, filesystemVars, cachesetsVars>>

\* Enter a mode that sets nothing but the mode.
EnterAvailableMode(mode) ==
    /\ availableMode' = mode
    /\ UNCHANGED <<available, availableMap, availableAllSelected, availableNew,
                   nodeVars, filesystemVars, cachesetsVars>>

\* deselectAll, select the row, updateAvailableSelection(true), then enter
\* the mode, the row's $options becoming options.
QuickAvailableMode(i, mode, options) ==
    LET rows == [deselectAll(available) EXCEPT ![i].selected = TRUE,
                                               ![i].options = options] IN
    /\ available' = rows
    /\ availableAllSelected' = AllSelected(rows)
    /\ availableMode' = mode
    /\ UNCHANGED <<availableMap, availableNew, nodeVars, filesystemVars, cachesetsVars>>

availableUnformat == EnterAvailableMode(SELECTION_MODE.UNFORMAT)

availableQuickUnformat(i) ==
    QuickAvailableMode(i, SELECTION_MODE.UNFORMAT, available[i].options)

availableConfirmUnformat(i) ==
    /\ AvailableUpdated([AvailableState EXCEPT !.rows[i].fstype = ""])
    /\ UNCHANGED <<nodeVars, filesystemVars, cachesetsVars>>

availableFormatAndMount(i) ==
    /\ available' = [available EXCEPT ![i].options = "format-mount"]
    /\ availableMode' = SELECTION_MODE.FORMAT_AND_MOUNT
    /\ UNCHANGED <<availableMap, availableAllSelected, availableNew,
                   nodeVars, filesystemVars, cachesetsVars>>

availableQuickFormatAndMount(i) ==
    QuickAvailableMode(i, SELECTION_MODE.FORMAT_AND_MOUNT, "format-mount")

\* fstype and mountPoint are what $options holds when the handler runs:
\* nothing, unless a handler gave $options those fields; fstypeChanged keeps
\* the mount point empty while no fstype is chosen.
OptionsHold(disk, fstype, mountPoint) ==
    /\ disk.options \notin {"format-mount", "partition"} => fstype = "" /\ mountPoint = <<>>
    /\ fstype = "" => mountPoint = <<>>

availableConfirmFormatAndMount(i, fstype, mountPoint) ==
    LET st == [AvailableState EXCEPT !.rows[i].fstype = fstype] IN
    /\ OptionsHold(available[i], fstype, mountPoint)
    /\ ~isMountPointInvalid(mountPoint)
    /\ IF mountPoint # <<>>
       THEN /\ filesystems' =
                   Append(filesystems,
                          [type |-> "undefined", block_id |-> available[i].block_id,
                           partition_id |-> available[i].partition_id,
                           original_type |-> "undefined", selected |-> FALSE])
            /\ AvailableUpdated(SpliceAvailable(st, i))
       ELSE /\ filesystems' = filesystems
            /\ AvailableUpdated(st)
    /\ UNCHANGED <<filesystemsMap, filesystemMode, filesystemAllSelected,
                   nodeVars, cachesetsVars>>

availableDelete == EnterAvailableMode(SELECTION_MODE.DELETE)

availableQuickDelete(i) ==
    QuickAvailableMode(i, SELECTION_MODE.DELETE, available[i].options)

availableConfirmDelete(i) ==
    /\ AvailableUpdated(SpliceAvailable(AvailableState, i))
    /\ UNCHANGED <<nodeVars, filesystemVars, cachesetsVars>>

availablePartition(i) ==
    /\ available' = [available EXCEPT ![i].options = "partition"]
    /\ availableMode' = SELECTION_MODE.PARTITION
    /\ UNCHANGED <<availableMap, availableAllSelected, availableNew,
                   nodeVars, filesystemVars, cachesetsVars>>

availableQuickPartition(i) ==
    QuickAvailableMode(i, SELECTION_MODE.PARTITION, "partition")

availableConfirmPartition(i, size, fstype, mountPoint) ==
    LET disk == available[i]
        bytes == IF size.prefilled THEN disk.available_size ELSE size.bytes
        removeDisk == bytes >= availablePartitionSpace(disk)
    IN /\ OptionsHold(disk, fstype, mountPoint)
       /\ ~(isAddPartitionSizeInvalid(disk, size) \/ isMountPointInvalid(mountPoint))
       /\ AvailableUpdated(IF removeDisk THEN SpliceAvailable(AvailableState, i)
                           ELSE AvailableState)
       /\ UNCHANGED <<nodeVars, filesystemVars, cachesetsVars>>

canCreateCacheSet ==
    IF isAvailableDisabled \/ ~isSuperUser THEN FALSE
    ELSE IF SelectedCount(available) = 1
         THEN LET disk == available[SelectedIndexes(available)[1]] IN
              /\ ~disk.has_partitions
              /\ ~hasUnmountedFilesystem(disk)
              /\ disk.type # "lvm-vg"
         ELSE FALSE

\* The row leaves the list; updateAvailableSelection is not called.
createCacheSet ==
    LET st == SpliceAvailable(AvailableState, SelectedIndexes(available)[1]) IN
    /\ canCreateCacheSet
    /\ available' = st.rows
    /\ availableMap' = st.map
    /\ availableNew' = st.new
    /\ UNCHANGED <<availableMode, availableAllSelected,
                   nodeVars, filesystemVars, cachesetsVars>>

canCreateBcache ==
    IF isAvailableDisabled \/ ~isSuperUser THEN FALSE
    ELSE IF SelectedCount(available) = 1
         THEN LET disk == available[SelectedIndexes(available)[1]] IN
              /\ ~hasUnmountedFilesystem(disk)
              /\ disk.type # "lvm-vg"
              /\ Len(cachesets) > 0
         ELSE FALSE

createBcache ==
    /\ canCreateBcache
    /\ availableMode' = SELECTION_MODE.BCACHE
    /\ availableNew' = [kind |-> "bcache",
                        device |-> Ref(available, SelectedIndexes(available)[1]),
                        devices |-> <<>>]
    /\ UNCHANGED <<available, availableMap, availableAllSelected,
                   nodeVars, filesystemVars, cachesetsVars>>

\* The name and mount point typed into the availableNew form.
createBcacheCanSave(name, mountPoint) ==
    ~isNewDiskNameInvalid(name) /\ ~isMountPointInvalid(mountPoint)

\* Without a cacheset or a device in availableNew the handler throws before
\* it changes anything.  A device that is no longer in the list has index -1.
availableConfirmCreateBcache(name, mountPoint) ==
    /\ createBcacheCanSave(name, mountPoint)
    /\ availableNew.kind = "bcache"
    /\ availableNew.device.defined
    /\ AvailableUpdated([SpliceAvailable(AvailableState, availableNew.device.idx)
                            EXCEPT !.new = EmptyNew])
    /\ UNCHANGED <<nodeVars, filesystemVars, cachesetsVars>>

canCreateRAID ==
    IF isAvailableDisabled \/ ~isSuperUser THEN FALSE
    ELSE IF SelectedCount(available) > 1
         THEN \A i \in DOMAIN available :
                 available[i].selected =>
                     ~hasUnmountedFilesystem(available[i]) /\ available[i].type # "lvm-vg"
         ELSE FALSE

SelectedRefs ==
    [d \in DOMAIN SelectedIndexes(available) |-> Ref(available, SelectedIndexes(available)[d])]

createRAID ==
    /\ canCreateRAID
    /\ availableMode' = SELECTION_MODE.RAID
    /\ availableNew' = [kind |-> "raid", device |-> Undefined, devices |-> SelectedRefs]
    /\ UNCHANGED <<available, availableMap, availableAllSelected,
                   nodeVars, filesystemVars, cachesetsVars>>

createRAIDCanSave(name, mountPoint) ==
    ~isNewDiskNameInvalid(name) /\ ~isMountPointInvalid(mountPoint)

\* For each device of availableNew.devices the handler splices at
\* indexOf(availableNew.device), which is -1: availableNew has no device.
\* Without a RAID mode in availableNew it throws before it changes anything.
availableConfirmCreateRAID(name, mountPoint) ==
    /\ createRAIDCanSave(name, mountPoint)
    /\ availableNew.kind = "raid"
    /\ AvailableUpdated([SpliceLast(AvailableState, Len(availableNew.devices))
                            EXCEPT !.new = EmptyNew])
    /\ UNCHANGED <<nodeVars, filesystemVars, cachesetsVars>>

canCreateVolumeGroup ==
    IF isAvailableDisabled \/ ~isSuperUser THEN FALSE
    ELSE IF SelectedCount(available) > 0
         THEN \A i \in DOMAIN available :
                 available[i].selected =>
                     /\ ~available[i].has_partitions
                     /\ ~hasUnmountedFilesystem(available[i])
                     /\ available[i].type # "lvm-vg"
         ELSE FALSE

createVolumeGroup ==
    /\ canCreateVolumeGroup
    /\ availableMode' = SELECTION_MODE.VOLUME_GROUP
    /\ availableNew' = [kind |-> "volume-group", device |-> Undefined,
                        devices |-> SelectedRefs]
    /\ UNCHANGED <<available, availableMap, availableAllSelected,
                   nodeVars, filesystemVars, cachesetsVars>>

createVolumeGroupCanSave(name) == ~isNewDiskNameInvalid(name)

\* The same splice at indexOf(availableNew.device); in bcache mode the device
\* exists but availableNew.devices does not, and nothing is spliced.
availableConfirmCreateVolumeGroup(name) ==
    /\ createVolumeGroupCanSave(name)
    /\ AvailableUpdated([SpliceLast(AvailableState, Len(availableNew.devices))
                            EXCEPT !.new = EmptyNew])
    /\ UNCHANGED <<nodeVars, filesystemVars, cachesetsVars>>

availableLogicalVolume(i) ==
    /\ available' = [available EXCEPT ![i].options = "logical-volume"]
    /\ availableMode' = SELECTION_MODE.LOGICAL_VOLUME
    /\ UNCHANGED <<availableMap, availableAllSelected, availableNew,
                   nodeVars, filesystemVars, cachesetsVars>>

\* $options of another shape has no name to slice: the handler throws before
\* it changes anything.
availableConfirmLogicalVolume(i, name, size) ==
    LET disk == available[i]
        typed == IF size.prefilled THEN disk.available_size ELSE size.bytes
        bytes == IF typed > disk.available_size THEN disk.available_size ELSE typed
        removeDisk == bytes = disk.available_size
    IN /\ ~(isLogicalVolumeNameInvalid(disk, name) \/ isAddPartitionSizeInvalid(disk, size))
       /\ disk.options = "logical-volume"
       /\ AvailableUpdated(IF removeDisk THEN SpliceAvailable(AvailableState, i)
                           ELSE AvailableState)
       /\ UNCHANGED <<nodeVars, filesystemVars, cachesetsVars>>

(***************************************************************************)
(* Part III: the specialised stores.  A store method shapes its arguments  *)
(* into the params of one RegionConnection.callMethod call and returns the *)
(* promise of that call.  A method name "<handler>.<verb>" is the pair     *)
(* <<handler, verb>>; params are a function from field names to values.    *)
(* ControllersManager calls its methods with the handler "controller",     *)
(* MachinesManager with "machine".                                         *)
(***************************************************************************)
SystemIds == Keys

Handlers == {"controller", "machine"}

InterfaceIds == {11}

LinkIds == {21}

\* A JavaScript argument: an object with its own fields, or not an object
\* (undefined, when the caller leaves it out).
NoObject == [defined |-> FALSE, fields |-> <<>>]

Obj(f) == [defined |-> TRUE, fields |-> f]

isObject(v) == v.defined

\* The params and the extra a caller passes: none, one field of its own, and
\* fields that carry the names the method sets itself.
CallerParams ==
    {NoObject,
     Obj("vlan" :> 5),
     Obj(("system_id" :> 9) @@ ("interface_id" :> 9) @@ ("vlan" :> 5))}

CallerExtra == {NoObject, Obj("osystem" :> "ubuntu")}

NodeActions == {"delete", "deploy"}

Results == {"on"}

Errors == {"denied"}

\* RegionConnection.callMethod(method, params), with the handlers the store
\* chains on the promise before it returns it ("none": the promise is
\* returned as it is).
callMethod(method, params, then) ==
    rpcs' = Append(rpcs, [method |-> method, params |-> params,
                          state |-> "pending", value |-> "", then |-> then])

\* params = {} unless the caller gave an object; then the method's own fields
\* are assigned over it.
ShapeParams(params, own) == own @@ (IF isObject(params) THEN params.fields ELSE <<>>)

performAction(handler, controller, action, extra) ==
    /\ callMethod(<<handler, "action">>,
                  [system_id |-> controller, action |-> action,
                   extra |-> IF isObject(extra) THEN extra.fields ELSE <<>>],
                  "none")
    /\ promise' = [rpc |-> Len(rpcs'), then |-> "none"]

createPhysicalInterfaceOwnId(handler, controller, params) ==
    /\ callMethod(<<handler, "create_physical">>,
                  ShapeParams(params, <<>>) @@ ("system_id" :> controller), "none")
    /\ promise' = [rpc |-> Len(rpcs'), then |-> "none"]

createPhysicalInterface(handler, controller, params) ==
    /\ callMethod(<<handler, "create_physical">>,
                  ShapeParams(params, "system_id" :> controller), "none")
    /\ promise' = [rpc |-> Len(rpcs'), then |-> "none"]

createVLANInterface(handler, controller, params) ==
    /\ callMethod(<<handler, "create_vlan">>,
                  ShapeParams(params, "system_id" :> controller), "none")
    /\ promise' = [rpc |-> Len(rpcs'), then |-> "none"]

createBondInterface(handler, controller, params) ==
    /\ callMethod(<<handler, "create_bond">>,
                  ShapeParams(params, "system_id" :> controller), "none")
    /\ promise' = [rpc |-> Len(rpcs'), then |-> "none"]

updateInterface(handler, controller, interface_id, params) ==
    /\ callMethod(<<handler, "update_interface">>,
                  ShapeParams(params, ("system_id" :> controller)
                                      @@ ("interface_id" :> interface_id)),
                  "none")
    /\ promise' = [rpc |-> Len(rpcs'), then |-> "none"]

deleteInterface(handler, controller, interface_id) ==
    /\ callMethod(<<handler, "delete_interface">>,
                  [system_id |-> controller, interface_id |-> interface_id], "none")
    /\ promise' = [rpc |-> Len(rpcs'), then |-> "none"]

linkSubnet(handler, controller, interface_id, params) ==
    /\ callMethod(<<handler, "link_subnet">>,
                  ShapeParams(params, ("system_id" :> controller)
                                      @@ ("interface_id" :> interface_id)),
                  "none")
    /\ promise' = [rpc |-> Len(rpcs'), then |-> "none"]

unlinkSubnet(handler, controller, interface_id, link_id) ==
    /\ callMethod(<<handler, "unlink_subnet">>,
                  [system_id |-> controller, interface_id |-> interface_id,
                   link_id |-> link_id],
                  "none")
    /\ promise' = [rpc |-> Len(rpcs'), then |-> "none"]

\* checkPowerState as the tests of NodesManager describe it: the RPC's
\* promise is chained with a success and an error handler, and the chained
\* promise is what the caller gets.
checkPowerStateRejecting(handler, machine) ==
    /\ callMethod(<<handler, "check_power">>, [system_id |-> machine], "checkPowerState")
    /\ promise' = [rpc |-> Len(rpcs'), then |-> "none"]

checkPowerState(handler, machine) ==
    /\ callMethod(<<handler, "check_power">>, [system_id |-> machine], "checkPowerState")
    /\ promise' = [rpc |-> Len(rpcs'), then |-> "checkPowerState"]

\* The handlers checkPowerState chained, run when its RPC settles.
checkPowerStateSettled(i, ok, value) ==
    IF rpcs[i].then = "checkPowerState"
    THEN /\ power_state' = [power_state EXCEPT ![rpcs[i].params.system_id] =
                                IF ok THEN value ELSE "error"]
         /\ consoleLog' = IF ok THEN consoleLog ELSE Append(consoleLog, value)
    ELSE UNCHANGED <<power_state, consoleLog>>

\* The server answers call i: its promise resolves with the result or is
\* rejected with the error, and the chained handlers run.
Respond(i, ok, value) ==
    /\ rpcs[i].state = "pending"
    /\ rpcs' = [rpcs EXCEPT ![i].state = IF ok THEN "resolved" ELSE "rejected",
                            ![i].value = value]
    /\ checkPowerStateSettled(i, ok, value)
    /\ UNCHANGED <<managerCall, promise, notified>>

\* What the holder of promise p sees: the RPC's own outcome, or what the
\* chained handlers returned.
Outcome(p) ==
    LET r == rpcs[p.rpc] IN
    IF r.state = "pending" THEN [state |-> "pending", value |-> ""]
    ELSE IF p.then = "checkPowerState"
         THEN [state |-> "resolved",
               value |-> IF r.state = "resolved" THEN r.value ELSE "error"]
         ELSE [state |-> r.state, value |-> r.value]

\* The ControllersManager constructor: primary key, handler, and the object
\* type it registers its notifier under.
ControllersManager ==
    [pk |-> "system_id", handler |-> "controller", notifier |-> "machine"]

ObjectTypes == {"controller", "machine", "device"}

\* RegionConnection delivers a notification of an object type to the
\* notifiers registered under that type; the ControllersManager's notifier
\* calls its onNotify.
Publish(type, action) ==
    /\ notified' = Append(notified, [type |-> type, action |-> action,
                                     onNotify |-> ControllersManager.notifier = type])
    /\ UNCHANGED <<rpcs, managerCall, promise, power_state, consoleLog>>

NoCall ==
    [n |-> 0, op |-> "none", handler |-> "", item |-> 0, interface_id |-> 0,
     link_id |-> 0, action |-> "", arg |-> NoObject]

ManagerInit ==
    /\ rpcs = <<>>
    /\ managerCall = NoCall
    /\ promise = [rpc |-> 0, then |-> "none"]
    /\ power_state = [s \in SystemIds |-> "unknown"]
    /\ consoleLog = <<>>
    /\ notified = <<>>

(***************************************************************************)
(* The RAID modes of the storage controller and the size of a new RAID.    *)
(* Device sizes are whole blocks; calculateSize gives its result in half   *)
(* blocks, so that the division by two of raid-10 is exact as it is in     *)
(* JavaScript's numbers.                                                   *)
(***************************************************************************)
RAID_MODES ==
    << [level |-> "raid-0", min_disks |-> 2, allows_spares |-> FALSE],
       [level |-> "raid-1", min_disks |-> 2, allows_spares |-> TRUE],
       [level |-> "raid-5", min_disks |-> 3, allows_spares |-> TRUE],
       [level |-> "raid-6", min_disks |-> 4, allows_spares |-> TRUE],
       [level |-> "raid-10", min_disks |-> 3, allows_spares |-> TRUE] >>

calculateSizeOneParity(mode, minSize, numDisks) ==
    CASE mode.level = "raid-0" -> 2 * (minSize * numDisks)
      [] mode.level = "raid-1" -> 2 * minSize
      [] mode.level = "raid-5" -> 2 * (minSize * (numDisks - 1))
      [] mode.level = "raid-6" -> 2 * (minSize * (numDisks - 1))
      [] mode.level = "raid-10" -> minSize * numDisks

calculateSize(mode, minSize, numDisks) ==
    CASE mode.level = "raid-0" -> 2 * (minSize * numDisks)
      [] mode.level = "raid-1" -> 2 * minSize
      [] mode.level = "raid-5" -> 2 * (minSize * (numDisks - 1))
      [] mode.level = "raid-6" -> 2 * (minSize * (numDisks - 2))
      [] mode.level = "raid-10" -> minSize * numDisks

\* The modes whose min_disks the chosen devices reach.
getAvailableRAIDModes(devices) ==
    {RAID_MODES[i] : i \in {j \in DOMAIN RAID_MODES : Len(devices) >= RAID_MODES[j].min_disks}}

getTotalNumberOfAvailableSpares(mode, devices) ==
    IF ~mode.allows_spares THEN 0
    ELSE IF Len(devices) - mode.min_disks < 0 THEN 0
    ELSE Len(devices) - mode.min_disks

\* The smallest device size (Math.min over the devices).
MinSize(devices) ==
    CHOOSE m \in {devices[i] : i \in DOMAIN devices} :
        \A i \in DOMAIN devices : m <= devices[i]

\* getNewRAIDSize, up to the formatting of the number: the devices that are
\* not spares, at the size of the smallest device.
getNewRAIDSize(mode, devices, spares) ==
    /\ raid' = [level |-> mode.level, devices |-> devices, spares |-> spares,
                size |-> calculateSize(mode, MinSize(devices), Len(devices) - spares)]

\* The devices a RAID can be made of: at least two, each of some size.
DeviceLists ==
    UNION {[1..n -> 1..MaxDeviceSize] : n \in 2..MaxDevices}

RaidInit == raid = [level |-> "", devices |-> <<>>, spares |-> 0, size |-> 0]


(***************************************************************************)
(* Part IV: the maas-obj-form directive, as its tests describe it.  A form *)
(* over an object of two fields, key1 and key2, compiled in one of three   *)
(* ways: "blur" (save-on-blur, the default), "group" (both fields in one   *)
(* maas-obj-field-group) and "form" (save-on-blur="false", with a          *)
(* maas-obj-save button).  An error shown on a field is <<text>>, or       *)
(* <<key, text>> for "key: text".                                          *)
(***************************************************************************)
FieldKeys == {"key1", "key2"}

FormModes == {"blur", "group", "form"}

\* The values a field of the object takes (the tests make up names).
FieldValues == {"name1", "name2"}

\* The objects a form is over and the objects updateItem resolves with.
FormObjects == [FieldKeys -> FieldValues]

NoError == [kind |-> "none", text |-> "", map |-> <<>>]

JsonError(m) == [kind |-> "json", text |-> "", map |-> m]

\* The payloads a save is rejected with: a plain string, and JSON mappings
\* from a key to its errors.
ErrorPayloads ==
    {[kind |-> "string", text |-> "e1", map |-> <<>>],
     JsonError(("key1" :> <<"e1", "e2">>) @@ ("key2" :> <<"e1">>)),
     JsonError("otherKey" :> <<"e1">>),
     JsonError(("__all__" :> <<"e1">>) @@ ("key1" :> <<"e1">>))}

\* Payloads that name only fields of the form and "__all__".
NamesFormOnly(e) == e.kind = "json" /\ DOMAIN e.map \subseteq FieldKeys \cup {"__all__"}

\* No save is being rejected.
NoRejection == [key |-> "", error |-> NoError]

FormInit ==
    /\ formObj = [k \in FieldKeys |-> "name1"]
    /\ fields = [k \in FieldKeys |-> [value |-> "", editing |-> FALSE, errors |-> <<>>]]
    /\ form = [mode |-> "", saving |-> FALSE, errors |-> <<>>, afterSave |-> 0,
               timer |-> FALSE, calls |-> 0, rejects |-> 0, saves |-> <<>>,
               rejection |-> NoRejection]

\* $compile of the form: every field shows the object's value.
Compile(mode) ==
    /\ form.mode = ""
    /\ form' = [form EXCEPT !.mode = mode, !.rejection = NoRejection]
    /\ fields' = [k \in FieldKeys |-> [fields[k] EXCEPT !.value = formObj[k]]]
    /\ UNCHANGED formObj

\* Some field of the group a field is in has focus.
GroupEditing == form.mode = "group" /\ \E k \in FieldKeys : fields[k].editing

\* The object's value of key k changed and the scope was digested: the field
\* follows, unless it, or a field of its group, is being edited.
ObjDigestOverwriting(k, v) ==
    /\ form.mode # ""
    /\ v # formObj[k]
    /\ formObj' = [formObj EXCEPT ![k] = v]
    /\ fields' = [fields EXCEPT ![k].value = v]
    /\ form' = [form EXCEPT !.rejection = NoRejection]

ObjDigest(k, v) ==
    /\ form.mode # ""
    /\ v # formObj[k]
    /\ formObj' = [formObj EXCEPT ![k] = v]
    /\ fields' = IF fields[k].editing \/ GroupEditing THEN fields
                 ELSE [fields EXCEPT ![k].value = v]
    /\ form' = [form EXCEPT !.rejection = NoRejection]

\* The field of key k gets the focus.
FieldFocus(k) ==
    /\ form.mode # ""
    /\ \A j \in FieldKeys : ~fields[j].editing
    /\ fields' = [fields EXCEPT ![k].editing = TRUE]
    /\ form' = [form EXCEPT !.rejection = NoRejection]
    /\ UNCHANGED formObj

\* The user types value v into the field that has the focus.
FieldInput(k, v) ==
    /\ fields[k].editing
    /\ v # fields[k].value
    /\ fields' = [fields EXCEPT ![k].value = v]
    /\ form' = [form EXCEPT !.rejection = NoRejection]
    /\ UNCHANGED formObj

\* The object with the values the fields of `keys` show.
UpdatedObj(keys) == [k \in FieldKeys |-> IF k \in keys THEN fields[k].value ELSE formObj[k]]

ChangedKeys == {k \in FieldKeys : fields[k].value # formObj[k]}

\* The sequence s without its element i.
Without(s, i) == SubSeq(s, 1, i - 1) \o SubSeq(s, i + 1, Len(s))

\* manager.updateItem(obj), called by the form with the values of the fields
\* of `keys`; `key` is the field the save was made from ("" when the save is
\* a group's or the whole form's), `by` what made it.
formUpdateItem(f, keys, key, by) ==
    [f EXCEPT !.saving = TRUE,
              !.calls = @ + 1,
              !.saves = Append(@, [obj |-> UpdatedObj(keys), keys |-> keys,
                                   key |-> key, by |-> by])]

\* The field of key k loses the focus.
FieldBlurAlwaysSaving(k) ==
    /\ fields[k].editing
    /\ form.calls < MaxSaves
    /\ fields' = [fields EXCEPT ![k].editing = FALSE]
    /\ form' = [formUpdateItem(form, {k}, k, "blur") EXCEPT !.rejection = NoRejection]
    /\ UNCHANGED formObj

FieldBlur(k) ==
    /\ fields[k].editing
    /\ fields' = [fields EXCEPT ![k].editing = FALSE]
    /\ UNCHANGED formObj
    /\ CASE form.mode = "blur" /\ k \in ChangedKeys ->
                /\ form.calls < MaxSaves
                /\ form' = [formUpdateItem(form, {k}, k, "blur")
                               EXCEPT !.rejection = NoRejection]
         [] form.mode = "group" ->
                form' = [form EXCEPT !.timer = TRUE, !.rejection = NoRejection]
         [] OTHER -> form' = [form EXCEPT !.rejection = NoRejection]

\* The blur timer of the group fires: the group is saved when no field of it
\* has the focus and some value has changed.
GroupTimerIgnoringFocus ==
    /\ form.timer
    /\ IF ChangedKeys # {}
       THEN /\ form.calls < MaxSaves
            /\ form' = [formUpdateItem(form, ChangedKeys, "", "timer")
                           EXCEPT !.timer = FALSE, !.rejection = NoRejection]
       ELSE form' = [form EXCEPT !.timer = FALSE, !.rejection = NoRejection]
    /\ UNCHANGED <<formObj, fields>>

GroupTimer ==
    /\ form.timer
    /\ IF ~GroupEditing /\ ChangedKeys # {}
       THEN /\ form.calls < MaxSaves
            /\ form' = [formUpdateItem(form, ChangedKeys, "", "timer")
                           EXCEPT !.timer = FALSE, !.rejection = NoRejection]
       ELSE form' = [form EXCEPT !.timer = FALSE, !.rejection = NoRejection]
    /\ UNCHANGED <<formObj, fields>>

\* A click on the maas-obj-save element of a form compiled with
\* save-on-blur="false".
SaveClick ==
    /\ form.mode = "form"
    /\ form.calls < MaxSaves
    /\ form' = [formUpdateItem(form, FieldKeys, "", "click")
                   EXCEPT !.rejection = NoRejection]
    /\ UNCHANGED <<formObj, fields>>

\* The promise of save i resolves with newObj: the saving state is cleared,
\* the saved fields show the resolved values, after-save is called.
SaveResolved(i, newObj) ==
    /\ i \in DOMAIN form.saves
    /\ fields' = [k \in FieldKeys |->
                     IF k \in form.saves[i].keys
                     THEN [fields[k] EXCEPT !.value = newObj[k]] ELSE fields[k]]
    /\ form' = [form EXCEPT !.saves = Without(@, i), !.saving = FALSE,
                            !.afterSave = @ + 1, !.rejection = NoRejection]
    /\ UNCHANGED formObj

\* The errors of the payload e, as the lines to show.
Lines(errs) == [n \in DOMAIN errs |-> <<errs[n]>>]

Prefixed(key, errs) == [n \in DOMAIN errs |-> <<key, errs[n]>>]

\* The keys of e that are no field of the form, "__all__" apart.
OtherKeys(e) == IF e.kind = "json" THEN DOMAIN e.map \ (FieldKeys \cup {"__all__"}) ELSE {}

\* The errors field k shows once a save made from field `edited` was
\* rejected with e.
FieldErrorsEditedOnly(k, edited, e) ==
    IF k # edited THEN fields[k].errors
    ELSE IF e.kind = "string" THEN << <<e.text>> >>
    ELSE IF k \in DOMAIN e.map THEN Lines(e.map[k])
    ELSE IF OtherKeys(e) # {}
         THEN LET o == CHOOSE o \in OtherKeys(e) : TRUE IN Prefixed(o, e.map[o])
    ELSE fields[k].errors

FieldErrors(k, edited, e) ==
    IF e.kind = "string" THEN (IF k = edited THEN << <<e.text>> >> ELSE fields[k].errors)
    ELSE IF k \in DOMAIN e.map THEN Lines(e.map[k])
    ELSE IF k = edited /\ OtherKeys(e) # {}
         THEN LET o == CHOOSE o \in OtherKeys(e) : TRUE IN Prefixed(o, e.map[o])
    ELSE fields[k].errors

\* The promise of save i is rejected with e.  What a save of the whole form
\* or of a group does with a plain string or with a key that is no field is
\* not described; such a save is rejected with errors of the form only.
SaveRejected(i, e) ==
    /\ i \in DOMAIN form.saves
    /\ form.saves[i].key = "" => NamesFormOnly(e)
    /\ fields' = [k \in FieldKeys |->
                     [fields[k] EXCEPT !.errors = FieldErrors(k, form.saves[i].key, e)]]
    /\ form' = [form EXCEPT !.saves = Without(@, i),
                            !.rejects = @ + 1,
                            !.errors = IF e.kind = "json" /\ "__all__" \in DOMAIN e.map
                                       THEN Lines(e.map["__all__"]) ELSE @,
                            !.rejection = [key |-> form.saves[i].key, error |-> e]]
    /\ UNCHANGED formObj

(***************************************************************************)
(* The boot-images directive, as its tests describe it: $scope.source and  *)
(* the BootResourcesManager.fetch calls of connect().                      *)
(***************************************************************************)
SourceTypes == {"maas.io", "custom"}

Urls == {"", "url"}

Keyrings == {"", "keyring"}

\* What a fetch resolves with (releases and arches) and is rejected with.
FetchData == {[releases |-> <<"xenial">>, arches |-> <<"amd64">>]}

FetchErrors == {"error"}

BootInit ==
    /\ source = [source_type |-> "maas.io", url |-> "", keyring_filename |-> "",
                 keyring_data |-> "", connecting |-> FALSE, errorMessage |-> "",
                 releases |-> <<>>, arches |-> <<>>]
    /\ fetches = <<>>
    /\ connectCalls = 0

bothKeyringOptionsSet(src) == src.keyring_filename # "" /\ src.keyring_data # ""

isConnectButtonDisabled(src) ==
    IF src.source_type = "maas.io" THEN FALSE
    ELSE bothKeyringOptionsSet(src) \/ src.url = "" \/ src.connecting

getSourceParams(src) ==
    IF src.source_type = "maas.io" THEN [source_type |-> "maas.io"]
    ELSE [source_type |-> "custom", url |-> src.url,
          keyring_filename |-> src.keyring_filename,
          keyring_data |-> src.keyring_data]

\* $scope.connect(): nothing when the button is disabled; else the source is
\* connecting and its options are fetched.
connect ==
    /\ connectCalls' = connectCalls + 1
    /\ IF isConnectButtonDisabled(source)
       THEN UNCHANGED <<source, fetches>>
       ELSE /\ source' = [source EXCEPT !.connecting = TRUE]
            /\ fetches' = Append(fetches, [params |-> getSourceParams(source),
                                           state |-> "pending"])

\* The promise of fetch i resolves with data.
fetchResolved(i, data) ==
    /\ fetches[i].state = "pending"
    /\ fetches' = [fetches EXCEPT ![i].state = "resolved"]
    /\ source' = [source EXCEPT !.connecting = FALSE,
                                !.releases = data.releases,
                                !.arches = data.arches]
    /\ UNCHANGED connectCalls

\* The promise of fetch i is rejected with error.
fetchRejected(i, error) ==
    /\ fetches[i].state = "pending"
    /\ fetches' = [fetches EXCEPT ![i].state = "rejected"]
    /\ source' = [source EXCEPT !.connecting = FALSE, !.errorMessage = error]
    /\ UNCHANGED connectCalls

\* The user's edits of the source (ng-model of the source form).
setSource(type, url, filename, data) ==
    /\ source' = [source EXCEPT !.source_type = type, !.url = url,
                                !.keyring_filename = filename,
                                !.keyring_data = data]
    /\ source' # source
    /\ UNCHANGED <<fetches, connectCalls>>


(***************************************************************************)
(* Part VIII.  Choosing the boot disk in NodeStorageController (part_000). *)
(* setAsBootDisk is called with a row of the available or of the used      *)
(* list.  The rows carry the fields the two functions read; a row of the   *)
(* used list has no has_partitions and no block_id field.  bootDisk is the *)
(* last call, bootDiskRpcs the block_ids given to                          *)
(* MachinesManager.setBootDisk (0: undefined).                             *)
(***************************************************************************)
BlockIds == 1..2

\* The rows updateAvailable builds.
AvailableItems ==
    [type : {"physical", "virtual"}, has_partitions : BOOLEAN, is_boot : BOOLEAN,
     block_id : BlockIds]
    \cup [type : {"partition"}, has_partitions : {FALSE}, is_boot : {FALSE},
          block_id : BlockIds]

\* The rows updateUsed builds.
UsedItems ==
    [type : {"physical", "virtual"}, is_boot : BOOLEAN]
    \cup [type : {"partition"}, is_boot : {FALSE}]

SectionItems == [available |-> AvailableItems, used |-> UsedItems]

BootDiskInit ==
    /\ bootDisk = [section |-> "none"]
    /\ bootDiskRpcs = <<>>

\* item.has_partitions as a condition: a missing field is undefined, which is falsy.
HasPartitions(item) ==
    IF "has_partitions" \in DOMAIN item THEN item.has_partitions ELSE FALSE

BlockId(item) == IF "block_id" \in DOMAIN item THEN item.block_id ELSE 0

isBootDiskDisabled(item, section) ==
    IF item.type # "physical" THEN TRUE
    ELSE IF section = "used" THEN ~HasPartitions(item)
    ELSE FALSE

\* The handler gets the item alone: it calls isBootDiskDisabled(item), where
\* section is undefined.  The section the row came from is recorded in
\* bootDisk only.
setAsBootDisk(item, section) ==
    /\ bootDisk' = [section |-> section, item |-> item]
    /\ IF item.is_boot THEN UNCHANGED bootDiskRpcs
       ELSE IF isBootDiskDisabled(item, "undefined") THEN UNCHANGED bootDiskRpcs
       ELSE bootDiskRpcs' = Append(bootDiskRpcs, BlockId(item))
(***************************************************************************)
(* Part V: the image selections of the boot-images directive, as its tests *)
(* describe them: the other images and their watch, the selection of       *)
(* Ubuntu releases and architectures, saving and stopping the import.  The *)
(* tests settle every BootResourcesManager call by resolving it; what the  *)
(* directive does when one is rejected is not described and not modelled.  *)
(***************************************************************************)
OtherImage(name, checked) == [name |-> name, checked |-> checked]

\* The lists bootResources.other_images takes.
OtherLists ==
    {<<>>, <<OtherImage("centos", TRUE)>>}

\* An Ubuntu image row: the series of its title, whether the title is an
\* LTS one, and whether the image is being deleted.
UbuntuImage(series, lts, beingDeleted) ==
    [series |-> series, lts |-> lts, beingDeleted |-> beingDeleted]

UbuntuImageLists ==
    {<<>>,
     <<UbuntuImage(16, TRUE, FALSE)>>,
     <<UbuntuImage(16, TRUE, TRUE), UbuntuImage(12, TRUE, FALSE),
       UbuntuImage(17, FALSE, FALSE)>>}

\* The releases and architectures a source offers, as objects with a name.
Named(name) == [name |-> name]

SelectionKinds == {"releases", "arches"}

Offered == [releases |-> {Named("xenial")}, arches |-> {Named("amd64")}]

\* No BootResourcesManager method was called.
NotSent == [method |-> ""]

ImagesInit ==
    /\ images = [saving |-> FALSE, stopping |-> FALSE,
                 other |-> [changed |-> FALSE, images |-> <<>>],
                 other_images |-> <<>>,
                 isNew |-> FALSE,
                 selections |-> [changed |-> FALSE, releases |-> <<>>, arches |-> <<>>],
                 ubuntuImages |-> <<>>,
                 called |-> {},
                 sent |-> NotSent]
    /\ imageRpcs = <<>>

\* $watch("bootResources.other_images"): the list is taken over unless the
\* user has changed the selection; the rows are regenerated either way.
otherImagesWatchOverwriting(list) ==
    /\ list # images.other_images
    /\ images' = [images EXCEPT !.other_images = list,
                                !.other.images = list,
                                !.called = {"regenerateOtherImages"}, !.sent = NotSent]
    /\ UNCHANGED imageRpcs

otherImagesWatch(list) ==
    /\ list # images.other_images
    /\ images' = [images EXCEPT !.other_images = list,
                                !.other.images = IF images.other.changed THEN @ ELSE list,
                                !.called = {"regenerateOtherImages"}, !.sent = NotSent]
    /\ UNCHANGED imageRpcs

toggleOtherSelection(i) ==
    /\ i \in DOMAIN images.other.images
    /\ images' = [images EXCEPT !.other.changed = TRUE,
                                !.other.images[i].checked = ~@,
                                !.called = {"regenerateOtherImages"}, !.sent = NotSent]
    /\ UNCHANGED imageRpcs

\* The sequence s without the element obj, or with it appended.
Toggled(s, obj) ==
    IF \E n \in DOMAIN s : s[n] = obj
    THEN SelectSeq(s, LAMBDA e : e # obj)
    ELSE Append(s, obj)

toggleSelection(kind, obj) ==
    /\ images' = [images EXCEPT !.selections.changed = TRUE,
                                !.selections[kind] = Toggled(@, obj),
                                !.called = {"regenerateUbuntuImages"}, !.sent = NotSent]
    /\ UNCHANGED imageRpcs

\* regenerateUbuntuImages leaves the rows of the Ubuntu images table.
ubuntuImagesRegenerated(list) ==
    /\ list # images.ubuntuImages
    /\ images' = [images EXCEPT !.ubuntuImages = list, !.called = {}, !.sent = NotSent]
    /\ UNCHANGED imageRpcs

\* sourceChanged() with no source saved yet.
sourceChangedNoSources ==
    /\ ~images.isNew
    /\ images' = [images EXCEPT !.isNew = TRUE, !.called = {"connect"}, !.sent = NotSent]
    /\ UNCHANGED imageRpcs

ltsIsSelected(s) ==
    \E n \in DOMAIN s.ubuntuImages :
        LET image == s.ubuntuImages[n] IN
        ~image.beingDeleted /\ image.lts /\ image.series >= 14

canSaveSelection(s) == ~s.saving /\ ~s.stopping /\ ltsIsSelected(s)

canStopImport(s) == ~s.saving /\ ~s.stopping

\* The names of the objects of a selection.
Names(s) == [n \in DOMAIN s |-> s[n].name]


saveSelection ==
    /\ canSaveSelection(images)
    /\ images' = [images EXCEPT
                      !.saving = TRUE, !.called = {},
                      !.sent = [method |-> "saveUbuntu",
                                source |-> getSourceParams(source),
                                releases |-> Names(images.selections.releases),
                                arches |-> Names(images.selections.arches)]]
    /\ imageRpcs' = Append(imageRpcs, "saveUbuntu")

\* The names of the other images that are checked.
CheckedNames(s) == Names(SelectSeq(s, LAMBDA image : image.checked))

saveOtherSelection ==
    /\ images' = [images EXCEPT
                      !.saving = TRUE, !.called = {},
                      !.sent = [method |-> "saveOther",
                                images |-> CheckedNames(images.other.images)]]
    /\ imageRpcs' = Append(imageRpcs, "saveOther")

stopImport ==
    IF ~canStopImport(images)
    THEN /\ images' = [images EXCEPT !.called = {}, !.sent = NotSent]
         /\ UNCHANGED imageRpcs
    ELSE /\ images' = [images EXCEPT !.stopping = TRUE, !.called = {},
                                     !.sent = [method |-> "stopImport"]]
         /\ imageRpcs' = Append(imageRpcs, "stopImport")

\* The promise of the call i in flight resolves.
imageRpcResolvedKeepingNew(i) ==
    /\ i \in DOMAIN imageRpcs
    /\ imageRpcs' = Without(imageRpcs, i)
    /\ images' =
         CASE imageRpcs[i] = "saveUbuntu" ->
                  [images EXCEPT !.saving = FALSE,
                                 !.selections.changed = FALSE,
                                 !.called = {"updateSource"}, !.sent = NotSent]
           [] imageRpcs[i] = "saveOther" ->
                  [images EXCEPT !.saving = FALSE, !.called = {}, !.sent = NotSent]
           [] imageRpcs[i] = "stopImport" ->
                  [images EXCEPT !.stopping = FALSE, !.called = {}, !.sent = NotSent]

imageRpcResolved(i) ==
    /\ i \in DOMAIN imageRpcs
    /\ imageRpcs' = Without(imageRpcs, i)
    /\ images' =
         CASE imageRpcs[i] = "saveUbuntu" ->
                  [images EXCEPT !.saving = FALSE,
                                 !.isNew = FALSE,
                                 !.selections.changed = FALSE,
                                 !.called = {"updateSource"}, !.sent = NotSent]
           [] imageRpcs[i] = "saveOther" ->
                  [images EXCEPT !.saving = FALSE, !.called = {}, !.sent = NotSent]
           [] imageRpcs[i] = "stopImport" ->
                  [images EXCEPT !.stopping = FALSE, !.called = {}, !.sent = NotSent]


(***************************************************************************)
(* Part VI.  One tab of the nodes list (nodes_list.js).  The tab is one    *)
(* whose check boxes select items in its manager ("devices", "controllers" *)
(* or "switches").  The record listTab holds the fields of                 *)
(* $scope.tabs[tab] the action handlers read and write, the manager's      *)
(* selected items and every item's action_failed; its field threw tells    *)
(* that the last handler ended with a RangeError of a recursion without    *)
(* end.  The filters the search parses into, filtered_items,               *)
(* allViewableChecked and the extra parameters of an action are left out.  *)
(***************************************************************************)
ListIds == 1..NumNodes

ActionOptions == {"release", "delete"}

\* node.actions of the items of the manager.
ItemActions(id) == IF id = 1 THEN {"release", "delete"} ELSE {"delete"}

ActionErrors == {"denied"}

TypedSearches == {"", "status:new", "in:selected"}

\* String.toLowerCase over the searches of the model.
toLowerCase(s) == IF s = "in:(Selected)" THEN "in:(selected)" ELSE s

NoProgress == [total |-> 0, completed |-> 0, errors |-> <<>>]

ListInit ==
    /\ listTab = [search |-> "", previous_search |-> "", actionOption |-> "null",
                  actionErrorCount |-> 0, actionProgress |-> NoProgress,
                  selectedItems |-> <<>>,
                  action_failed |-> [id \in ListIds |-> "undefined"],
                  threw |-> FALSE]
    /\ actionPromises = <<>>
    /\ searchBefore = "none"

isViewingSelected(t) ==
    LET search == toLowerCase(t.search)
    IN  search = "in:(selected)" \/ search = "in:selected"

enterViewSelected(t) ==
    [t EXCEPT !.previous_search = t.search, !.search = "in:(Selected)"]

resetActionProgress(t) == [t EXCEPT !.actionProgress = NoProgress]

\* A call deeper than StackDepth frames throws: the handler ends there.
RangeError(t) == [t EXCEPT !.threw = TRUE]

RECURSIVE leaveViewSelected(_, _)
RECURSIVE clearAction(_, _)
RECURSIVE shouldClearAction(_, _)
RECURSIVE updateFilters(_, _)

leaveViewSelected(t, depth) ==
    IF depth = 0 THEN RangeError(t)
    ELSE IF isViewingSelected(t)
         THEN updateFilters([t EXCEPT !.search = t.previous_search], depth - 1)
         ELSE t

clearAction(t, depth) ==
    IF depth = 0 THEN RangeError(t)
    ELSE LET left == leaveViewSelected(resetActionProgress(t), depth - 1)
         IN  IF left.threw THEN left ELSE [left EXCEPT !.actionOption = "null"]

shouldClearAction(t, depth) ==
    IF depth = 0 THEN RangeError(t)
    ELSE LET cleared == IF Len(t.selectedItems) = 0
                        THEN clearAction(t, depth - 1) ELSE t
         IN  IF cleared.threw THEN cleared
             ELSE IF cleared.actionOption # "null" /\ ~isViewingSelected(cleared)
                  THEN [cleared EXCEPT !.actionOption = "null"]
                  ELSE cleared

updateFilters(t, depth) ==
    IF depth = 0 THEN RangeError(t) ELSE shouldClearAction(t, depth - 1)

supportsAction(t, id) ==
    IF t.actionOption = "null" THEN TRUE ELSE t.actionOption \in ItemActions(id)

updateActionErrorCount(t) ==
    [t EXCEPT !.actionErrorCount =
                  Cardinality({i \in DOMAIN t.selectedItems :
                                   ~supportsAction(t, t.selectedItems[i])}),
              !.action_failed = [id \in ListIds |->
                                    IF id \in Range(t.selectedItems) THEN "false"
                                    ELSE t.action_failed[id]]]

addErrorToActionProgress(t, error, id) ==
    LET progress == t.actionProgress
        nodes == IF error \in DOMAIN progress.errors
                 THEN Append(progress.errors[error], id) ELSE <<id>>
    IN  [t EXCEPT !.actionProgress =
            [progress EXCEPT !.completed = progress.completed + 1,
                             !.errors = [e \in DOMAIN progress.errors \cup {error} |->
                                            IF e = error THEN nodes
                                            ELSE progress.errors[e]]]]

hasActionsInProgress(t) ==
    t.actionProgress.total > 0 /\ t.actionProgress.completed # t.actionProgress.total

hasActionsFailed(t) == DOMAIN t.actionProgress.errors # {}

\* manager.unselectItem for every item of the list idsToDrop.
Unselected(t, idsToDrop) ==
    [t EXCEPT !.selectedItems = SelectSeq(t.selectedItems, LAMBDA id : id \notin idsToDrop)]

updateSelectedItems(t) ==
    IF ~hasActionsFailed(t)
    THEN IF ~hasActionsInProgress(t)
         THEN LET cleared == clearAction(t, StackDepth)
              IN  IF cleared.threw THEN cleared ELSE enterViewSelected(cleared)
         ELSE t
    ELSE Unselected(t, {id \in ListIds : t.action_failed[id] = "false"})

Handled(t) == listTab' = t

Started(t) == [t EXCEPT !.threw = FALSE]

toggleChecked(id) ==
    LET t == Started(listTab)
        toggled == IF id \in Range(t.selectedItems)
                   THEN Unselected(t, {id})
                   ELSE [t EXCEPT !.selectedItems = Append(t.selectedItems, id)]
    IN  /\ Handled(shouldClearAction(updateActionErrorCount(toggled), StackDepth))
        /\ UNCHANGED actionPromises

clearSearch ==
    /\ Handled(updateFilters([Started(listTab) EXCEPT !.search = ""], StackDepth))
    /\ UNCHANGED actionPromises

\* The search bar is edited: ng-model assigns the search, ng-change calls updateFilters.
searchEdited(text) ==
    /\ Handled(updateFilters([Started(listTab) EXCEPT !.search = text], StackDepth))
    /\ UNCHANGED actionPromises

showSelected ==
    /\ Handled(updateFilters(enterViewSelected(Started(listTab)), StackDepth))
    /\ UNCHANGED actionPromises

\* The action select is changed: ng-model assigns actionOption, ng-change calls the handler.
actionOptionSelected(option) ==
    /\ Handled(enterViewSelected(updateActionErrorCount(
                   [Started(listTab) EXCEPT !.actionOption = option])))
    /\ UNCHANGED actionPromises

actionCancelKeepingSearch ==
    /\ Handled([resetActionProgress(Started(listTab)) EXCEPT !.actionOption = "null"])
    /\ UNCHANGED actionPromises

actionCancel ==
    LET left == leaveViewSelected(resetActionProgress(Started(listTab)), StackDepth)
    IN  /\ Handled(IF left.threw THEN left ELSE [left EXCEPT !.actionOption = "null"])
        /\ UNCHANGED actionPromises

actionGo ==
    LET t == Started(listTab)
    IN  /\ t.actionOption # "null"
        /\ Handled([t EXCEPT !.actionProgress =
                        [NoProgress EXCEPT !.total = Len(t.selectedItems)]])
        /\ actionPromises' = actionPromises \o t.selectedItems

performActionResolved(i) ==
    LET t == Started(listTab)
        id == actionPromises[i]
    IN  /\ Handled(updateSelectedItems(
               [t EXCEPT !.actionProgress.completed = t.actionProgress.completed + 1,
                         !.action_failed[id] = "false"]))
        /\ actionPromises' = Without(actionPromises, i)

performActionRejected(i, error) ==
    LET t == Started(listTab)
        id == actionPromises[i]
    IN  /\ Handled(updateSelectedItems(
               [addErrorToActionProgress(t, error, id) EXCEPT !.action_failed[id] = "true"]))
        /\ actionPromises' = Without(actionPromises, i)

(***************************************************************************)
(* Part VII.  The IP validators of ValidationService (part_003).  A string *)
(* is the sequence of its characters; NaN is the result of parseInt on a   *)
(* string that does not start with a digit.  The variable validation holds *)
(* the validateIPInRange call of a run and what it returned.               *)
(***************************************************************************)
NaN == -1

DigitValue ==
    [c \in {"0", "1", "2", "3", "4", "5", "6", "7", "8", "9",
            "a", "b", "c", "d", "e", "f"} |->
        CASE c = "0" -> 0 [] c = "1" -> 1 [] c = "2" -> 2 [] c = "3" -> 3
          [] c = "4" -> 4 [] c = "5" -> 5 [] c = "6" -> 6 [] c = "7" -> 7
          [] c = "8" -> 8 [] c = "9" -> 9 [] c = "a" -> 10 [] c = "b" -> 11
          [] c = "c" -> 12 [] c = "d" -> 13 [] c = "e" -> 14 [] c = "f" -> 15]

isDigit(c, radix) == c \in DOMAIN DigitValue /\ DigitValue[c] < radix

\* parseInt(text, radix): the number the leading digits of text spell.
RECURSIVE parseDigits(_, _, _)
parseDigits(text, radix, value) ==
    IF text = <<>> \/ ~isDigit(Head(text), radix) THEN value
    ELSE parseDigits(Tail(text), radix, value * radix + DigitValue[Head(text)])

parseInt(text, radix) ==
    IF text = <<>> \/ ~isDigit(Head(text), radix) THEN NaN
    ELSE parseDigits(text, radix, 0)

\* Index of the first occurrence of separator in text, 0 when there is none.
indexOf(text, separator) ==
    LET found == {i \in 1..(Len(text) - Len(separator) + 1) :
                      SubSeq(text, i, i + Len(separator) - 1) = separator}
    IN  IF found = {} THEN 0 ELSE CHOOSE i \in found : \A j \in found : i <= j

\* String.split(separator)
RECURSIVE split(_, _)
split(text, separator) ==
    LET i == indexOf(text, separator)
    IN  IF i = 0 THEN <<text>>
        ELSE <<SubSeq(text, 1, i - 1)>>
                 \o split(SubSeq(text, i + Len(separator), Len(text)), separator)

RECURSIVE Pow2(_)
Pow2(n) == IF n = 0 THEN 1 ELSE 2 * Pow2(n - 1)

\* octets[part] >> shift; an octet past the end of the array is undefined
\* and shifts to 0, as NaN does.
ShiftRight(octets, part, shift) ==
    IF part > Len(octets) \/ octets[part] = NaN THEN 0
    ELSE octets[part] \div Pow2(shift)

\* part counts from 1 here.
RECURSIVE cidrMatcherFrom(_, _, _, _, _)
cidrMatcherFrom(one, two, size, bits, part) ==
    IF bits = NaN \/ bits <= 0 THEN TRUE
    ELSE LET shift == IF size - bits < 0 THEN 0 ELSE size - bits
         IN  IF ShiftRight(one, part, shift) # ShiftRight(two, part, shift) THEN FALSE
             ELSE cidrMatcherFrom(one, two, size, bits - size, part + 1)

cidrMatcher(one, two, size, bits) == cidrMatcherFrom(one, two, size, bits, 1)

ipv4ToOctets(ipAddress) ==
    LET parts == split(ipAddress, <<".">>)
    IN  [i \in DOMAIN parts |-> parseInt(parts[i], 10)]

RECURSIVE Zeros(_)
Zeros(n) == IF n <= 0 THEN <<>> ELSE <<"0", "0", "0", "0", ":">> \o Zeros(n - 1)

GroupCount(pieces) ==
    LET counts == [i \in DOMAIN pieces |-> Len(split(pieces[i], <<":">>))]
        sum[i \in 0..Len(pieces)] == IF i = 0 THEN 0 ELSE sum[i - 1] + counts[i]
    IN  sum[Len(pieces)]

ipv6Expand(ipAddress) ==
    IF indexOf(ipAddress, <<":", ":">>) # 0
    THEN LET pieces == split(ipAddress, <<":", ":">>)
         IN  pieces[1] \o <<":">> \o Zeros(8 - GroupCount(pieces)) \o pieces[2]
    ELSE ipAddress

ipv6ToOctets(ipAddress) ==
    LET parts == split(ipv6Expand(ipAddress), <<":">>)
    IN  [i \in DOMAIN parts |-> parseInt(parts[i], 16)]

\* ipv4Pattern: four parts of one to three decimal digits, none above 255.
validateIPv4(ipAddress) ==
    LET parts == split(ipAddress, <<".">>)
    IN  /\ Len(ipAddress) # 0
        /\ Len(parts) = 4
        /\ \A i \in DOMAIN parts :
               /\ Len(parts[i]) \in 1..3
               /\ \A j \in DOMAIN parts[i] : isDigit(parts[i][j], 10)
               /\ parseInt(parts[i], 10) <= 255

validateIPv6(ipAddress) ==
    IF Len(ipAddress) = 0 \/ indexOf(ipAddress, <<":">>) = 0 THEN FALSE
    ELSE LET octets == ipv6ToOctets(ipv6Expand(ipAddress))
         IN  IF Len(octets) # 8 THEN FALSE
             ELSE IF \E i \in 1..8 : octets[i] = NaN \/ octets[i] < 0 \/ octets[i] > 65535
                  THEN FALSE
             ELSE IF octets[1] < 1 \/ octets[1] = 65280 \/ octets[1] = 65152 THEN FALSE
             ELSE TRUE

validateIPInNetwork(ipAddress, network) ==
    LET networkSplit == split(network, <<"/">>)
        networkAddress == networkSplit[1]
        cidrBits == IF Len(networkSplit) > 1 THEN parseInt(networkSplit[2], 10) ELSE NaN
    IN  IF validateIPv4(ipAddress) /\ validateIPv4(networkAddress)
        THEN cidrMatcher(ipv4ToOctets(ipAddress), ipv4ToOctets(networkAddress), 8, cidrBits)
        ELSE IF validateIPv6(ipAddress) /\ validateIPv6(networkAddress)
        THEN cidrMatcher(ipv6ToOctets(ipAddress), ipv6ToOctets(networkAddress), 16, cidrBits)
        ELSE FALSE

\* Every octet of the address lies between the octets of low and high at its place.
OctetsWithin(ipOctets, lowOctets, highOctets, count) ==
    \A i \in 1..count : ~(ipOctets[i] > highOctets[i] \/ ipOctets[i] < lowOctets[i])

\* The whole address lies between low and high.
OctetsWithinAsAddress(ipOctets, lowOctets, highOctets, count) ==
    LET Before(a, b) == \E i \in 1..count :
                            a[i] < b[i] /\ \A j \in 1..(i - 1) : a[j] = b[j]
    IN  ~Before(highOctets, ipOctets) /\ ~Before(ipOctets, lowOctets)

validateIPInRange(ipAddress, network, lowAddress, highAddress) ==
    IF ~validateIPInNetwork(ipAddress, network) THEN FALSE
    ELSE IF validateIPv4(ipAddress) /\ validateIPv4(lowAddress) /\ validateIPv4(highAddress)
    THEN OctetsWithin(ipv4ToOctets(ipAddress), ipv4ToOctets(lowAddress),
                      ipv4ToOctets(highAddress), 4)
    ELSE IF validateIPv6(ipAddress) /\ validateIPv6(lowAddress) /\ validateIPv6(highAddress)
    THEN OctetsWithin(ipv6ToOctets(ipAddress), ipv6ToOctets(lowAddress),
                      ipv6ToOctets(highAddress), 8)
    ELSE FALSE

\* ---- the addresses validated ----------------------------------------------
Ip4(a, b, c, d) == a \o <<".">> \o b \o <<".">> \o c \o <<".">> \o d

Addresses ==
    {Ip4(<<"1", "0">>, <<"0">>, <<"0">>, <<"9">>),
     Ip4(<<"1", "0">>, <<"0">>, <<"0">>, <<"2", "0", "0">>),
     Ip4(<<"1", "0">>, <<"0">>, <<"1">>, <<"5">>),
     Ip4(<<"1", "0">>, <<"0">>, <<"1">>, <<"2", "5", "5">>),
     Ip4(<<"1", "0">>, <<"1">>, <<"0">>, <<"1">>),
     <<"2", "0", "0", "1", ":", "d", "b", "8", ":", ":", "f", "f">>,
     <<"2", "0", "0", "1", ":", "d", "b", "8", ":", ":", "1", ":", "5">>,
     <<"1", "0", ".", "0", ".", "0">>}

Networks ==
    {Ip4(<<"1", "0">>, <<"0">>, <<"0">>, <<"0">>) \o <<"/", "1", "6">>,
     Ip4(<<"1", "0">>, <<"0">>, <<"0">>, <<"0">>) \o <<"/", "2", "4">>,
     <<"2", "0", "0", "1", ":", "d", "b", "8", ":", ":", "0", "/", "6", "4">>}

NotCalled == [result |-> "none"]

ValidationInit == validation = NotCalled

\* The service is called with these arguments.
called(ipAddress, network, lowAddress, highAddress) ==
    /\ validation = NotCalled
    /\ validation' = [ipAddress |-> ipAddress, network |-> network,
                      lowAddress |-> lowAddress, highAddress |-> highAddress,
                      result |-> "pending"]

\* The call returns.
returned ==
    /\ validation.result = "pending"
    /\ validation' = [validation EXCEPT !.result =
                          IF validateIPInRange(validation.ipAddress, validation.network,
                                               validation.lowAddress, validation.highAddress)
                          THEN "true" ELSE "false"]

(***************************************************************************)
(* Part IX.  The createPartition call of availableConfirmPartition         *)
(* (part_000).  partitionCall is the last call of the handler with what    *)
(* the user typed, partitionRpcs the calls of                              *)
(* MachinesManager.createPartition it made.                                *)
(***************************************************************************)
PartitionInit ==
    /\ partitionCall = [at |-> 0]
    /\ partitionRpcs = <<>>

\* The bytes handed to createPartition without the clamp to the space of the disk.
createPartitionBytesUnclamped(disk, size) ==
    IF size.prefilled THEN disk.available_size ELSE size.bytes

\* The bytes handed to createPartition.
createPartitionBytes(disk, size) ==
    LET bytes == IF size.prefilled THEN disk.available_size ELSE size.bytes
        available_space == availablePartitionSpace(disk)
    IN  IF bytes >= available_space THEN available_space ELSE bytes

createPartitionParams(fstype, mountPoint) ==
    IF fstype # ""
    THEN IF mountPoint # <<>> THEN [fstype |-> fstype, mount_point |-> mountPoint]
         ELSE [fstype |-> fstype]
    ELSE <<>>

\* The handler with its early return and its RPC.
availableConfirmPartitionCalled(i, size, fstype, mountPoint) ==
    LET disk == available[i] IN
    /\ OptionsHold(disk, fstype, mountPoint)
    /\ partitionCall' = [at |-> handled + 1, disk |-> disk, size |-> size,
                         mountPoint |-> mountPoint]
    /\ IF isAddPartitionSizeInvalid(disk, size) \/ isMountPointInvalid(mountPoint)
       THEN UNCHANGED <<nodeVars, filesystemVars, cachesetsVars, availableVars, partitionRpcs>>
       ELSE /\ availableConfirmPartition(i, size, fstype, mountPoint)
            /\ partitionRpcs' =
                   Append(partitionRpcs,
                          [block_id |-> disk.block_id,
                           bytes |-> createPartitionBytes(disk, size),
                           params |-> createPartitionParams(fstype, mountPoint)])

(***************************************************************************)
(* Part X.  The action of NodeDetailsController (part_000).  details holds *)
(* $scope.actionOption (its name, "null" for null), $scope.actionError,    *)
(* the path of $location, whether the last callback ended with a           *)
(* TypeError, and the promise that settled last; detailRpcs holds the      *)
(* action names of the performAction calls in flight.  The os selection    *)
(* and the commission options, which the handlers pass on and reset, are   *)
(* left out.                                                               *)
(***************************************************************************)
DetailActions == {"release", "delete"}

NotSettled == [outcome |-> "none"]

DetailsInit ==
    /\ details = [actionOption |-> "null", actionError |-> "null", location |-> "/node",
                  threw |-> FALSE, settled |-> NotSettled]
    /\ detailRpcs = <<>>

DetailsStarted == [details EXCEPT !.threw = FALSE, !.settled = NotSettled]

\* The action select is changed: ng-model assigns actionOption, ng-change calls the handler.
actionOptionChanged(option) ==
    /\ details' = [DetailsStarted EXCEPT !.actionOption = option, !.actionError = "null"]
    /\ UNCHANGED detailRpcs

detailsActionCancel ==
    /\ details' = [DetailsStarted EXCEPT !.actionOption = "null", !.actionError = "null"]
    /\ UNCHANGED detailRpcs

\* $scope.actionOption.name of a null actionOption is a TypeError.
detailsActionGo ==
    IF details.actionOption = "null"
    THEN /\ details' = [DetailsStarted EXCEPT !.threw = TRUE]
         /\ UNCHANGED detailRpcs
    ELSE /\ details' = DetailsStarted
         /\ detailRpcs' = Append(detailRpcs, details.actionOption)

detailsActionResolved(i) ==
    LET settled == [outcome |-> "resolved", action |-> detailRpcs[i], error |-> "null"]
    IN  /\ details' =
               IF details.actionOption = "null"
               THEN [DetailsStarted EXCEPT !.threw = TRUE, !.settled = settled]
               ELSE [DetailsStarted EXCEPT
                        !.location = IF details.actionOption = "delete"
                                     THEN "/nodes" ELSE @,
                        !.actionOption = "null",
                        !.actionError = "null",
                        !.settled = settled]
        /\ detailRpcs' = Without(detailRpcs, i)

detailsActionRejected(i, error) ==
    /\ details' = [DetailsStarted EXCEPT
                      !.actionError = error,
                      !.settled = [outcome |-> "rejected", action |-> detailRpcs[i],
                                   error |-> error]]
    /\ detailRpcs' = Without(detailRpcs, i)
UiInit == ImagesInit /\ ListInit /\ ValidationInit /\ BootDiskInit /\ PartitionInit /\ DetailsInit

ExtInit == ManagerInit /\ RaidInit /\ FormInit /\ BootInit /\ UiInit


StorageInit ==
    /\ node = NoNode
    /\ has_disks = FALSE
    /\ used = <<>>
    /\ filesystems = <<>>
    /\ filesystemsMap = <<>>
    /\ filesystemMode = SELECTION_MODE.NONE
    /\ filesystemAllSelected = FALSE
    /\ cachesets = <<>>
    /\ cachesetsMap = <<>>
    /\ cachesetsMode = SELECTION_MODE.NONE
    /\ cachesetsAllSelected = FALSE
    /\ available = <<>>
    /\ availableMap = <<>>
    /\ availableMode = SELECTION_MODE.NONE
    /\ availableAllSelected = FALSE
    /\ availableNew = EmptyNew
    /\ handled = 0

(***************************************************************************)
(* The state after construction.                                           *)
(***************************************************************************)
Init ==
    /\ objs = [i \in Oids |-> Free]
    /\ items = <<>>
    /\ selected = {}
    /\ activeItem = 0
    /\ token = 0
    /\ calls = <<>>
    /\ updates = {}
    /\ shadow = <<>>
    /\ lastOp = NoOp
    /\ scopeNode = 0
    /\ summary = [editing |-> FALSE, selected |-> 0]
    /\ StorageInit
    /\ ExtInit

(***************************************************************************)
(* Next-state relations of Part I.  Each capitalised action is the         *)
(* operation of the same name above with every input it can be given; the  *)
(* history variables are set here.                                         *)
(***************************************************************************)
Held(k) == getItemFromList(k) # 0

Fetch ==
    \E list \in ServerLists, full \in BOOLEAN :
        /\ FetchResolved(list, full)
        /\ lastOp' = Op("fetch", 0, full)
        /\ UNCHANGED <<shadow, storageVars, extVars>>

FetchFail == FetchRejected /\ lastOp' = Op("other", 0, FALSE) /\ UNCHANGED <<shadow, storageVars, extVars>>

Create ==
    \E d \in ItemData :
        CreateResolved(d) /\ lastOp' = Op("put", d.pk, Held(d.pk)) /\ UNCHANGED <<shadow, storageVars, extVars>>

UpdateCall ==
    \E d \in ItemData :
        /\ UpdateItemCall(d)
        /\ lastOp' = Op("updateItem", d.pk, objs[getItemFromList(d.pk)].val # d.val)
        /\ UNCHANGED <<shadow, storageVars, extVars>>

UpdateOk ==
    \E u \in updates, v \in Vals :
        UpdateResolved(u, v) /\ lastOp' = Op("put", u.pk, Held(u.pk)) /\ UNCHANGED <<shadow, storageVars, extVars>>

UpdateFail ==
    \E u \in updates :
        /\ UpdateRejected(u)
        /\ lastOp' = Op(IF u.scope THEN "updateNodeRejected" ELSE "updateRejected", u.pk,
                         Held(u.pk) /\ objs[getItemFromList(u.pk)].val # u.val)
        /\ UNCHANGED <<shadow, storageVars, extVars>>

DeleteOk ==
    \E k \in Keys :
        /\ DeleteResolved(k)
        /\ lastOp' = Op("remove", k, Held(k) /\ k \in selected)
        /\ UNCHANGED <<shadow, storageVars, extVars>>

DeleteFail == \E k \in Keys : DeleteRejected(k) /\ lastOp' = Op("other", 0, FALSE) /\ UNCHANGED <<shadow, storageVars, extVars>>

Select == \E k \in Keys : selectItem(k) /\ lastOp' = Op("select", k, Held(k)) /\ UNCHANGED <<shadow, storageVars, extVars>>

Unselect == \E k \in Keys : unselectItem(k) /\ lastOp' = Op("other", 0, FALSE) /\ UNCHANGED <<shadow, storageVars, extVars>>

\* A notification arrives and is handled.
Notify ==
    \E a \in Actions, d \in ItemData :
        /\ a = "deleted" => d.val = 1
        /\ onNotify(a, d)
        /\ lastOp' = Op(a, d.pk, IF a = "deleted" THEN Held(d.pk) /\ d.pk \in selected
                                  ELSE Held(d.pk))
        /\ UNCHANGED <<shadow, storageVars, extVars>>

\* The same, for the specifications that keep no record of it.
NotifyQuiet ==
    \E a \in Actions, d \in ItemData :
        /\ a = "deleted" => d.val = 1
        /\ onNotify(a, d)
        /\ lastOp' = Op("other", 0, FALSE)
        /\ UNCHANGED <<shadow, storageVars, extVars>>

\* A notification arrives and is handled; the reference list follows it.
NotifyTracked ==
    \E a \in Actions, d \in ItemData :
        /\ a = "deleted" => d.val = 1
        /\ onNotify(a, d)
        /\ shadow' = ApplyNote(shadow, a, d)
        /\ lastOp' = Op(a, d.pk, Held(d.pk))
        /\ UNCHANGED <<storageVars, extVars>>

Load == \E k \in Keys : ControllerLoad(k) /\ lastOp' = Op("other", 0, FALSE) /\ UNCHANGED <<shadow, storageVars, extVars>>

GetOk ==
    \E i \in DOMAIN calls, v \in Vals :
        GetResolved(i, v) /\ lastOp' = Op("other", 0, FALSE) /\ UNCHANGED <<shadow, storageVars, extVars>>

GetFail == \E i \in DOMAIN calls : GetRejected(i) /\ lastOp' = Op("other", 0, FALSE) /\ UNCHANGED <<shadow, storageVars, extVars>>

EditSummary == editSummary /\ lastOp' = Op("other", 0, FALSE) /\ UNCHANGED <<shadow, storageVars, extVars>>

PickSummary ==
    \E v \in Vals \cup {0} :
        SelectSummary(v) /\ lastOp' = Op("other", 0, FALSE) /\ UNCHANGED <<shadow, storageVars, extVars>>

CancelEditSummary == cancelEditSummary /\ lastOp' = Op("other", 0, FALSE) /\ UNCHANGED <<shadow, storageVars, extVars>>

SaveEditSummary ==
    /\ saveEditSummary
    /\ lastOp' = IF summary.selected = 0 THEN Op("other", 0, FALSE)
                 ELSE Op("updateNode", objs[scopeNode].pk,
                         objs[scopeNode].val # summary.selected)
    /\ UNCHANGED <<shadow, storageVars, extVars>>

\* The collection and its selection set under every source of server data.
Next ==
    \/ Fetch
    \/ FetchFail
    \/ Create
    \/ UpdateCall
    \/ UpdateOk
    \/ UpdateFail
    \/ DeleteOk
    \/ DeleteFail
    \/ Select
    \/ Unselect
    \/ Notify

Spec == Init /\ [][Next]_vars

\* Node pages activating items while notifications keep arriving.
ActiveNext == Load \/ GetOk \/ GetFail \/ NotifyQuiet

ActiveSpec == Init /\ [][ActiveNext]_vars

\* A node page editing its node while the server changes it.
UpdateNext ==
    \/ Load
    \/ EditSummary
    \/ PickSummary
    \/ CancelEditSummary
    \/ SaveEditSummary
    \/ UpdateCall
    \/ UpdateOk
    \/ UpdateFail
    \/ NotifyQuiet

UpdateSpec == Init /\ [][UpdateNext]_vars

\* The notification stream alone.
NotifyNext == NotifyTracked \/ Select \/ Unselect

NotifySpec == Init /\ [][NotifyNext]_vars

(***************************************************************************)
(* Next-state relation of Part II: a run of at most MaxHandled handler     *)
(* calls.  Each capitalised action is the handler of the same name, called *)
(* with every argument the view can pass it.  The Item Store is left       *)
(* alone; lastOp records which section a toggle was in, and whether that   *)
(* section was in an action state when the toggle ran.                     *)
(***************************************************************************)
storeState ==
    <<objs, items, selected, activeItem, token, calls, updates, shadow, scopeNode, summary>>

ActionStates ==
    {SELECTION_MODE.UNMOUNT, SELECTION_MODE.UNFORMAT, SELECTION_MODE.DELETE,
     SELECTION_MODE.FORMAT_AND_MOUNT, SELECTION_MODE.PARTITION, SELECTION_MODE.BCACHE,
     SELECTION_MODE.RAID, SELECTION_MODE.VOLUME_GROUP, SELECTION_MODE.LOGICAL_VOLUME}

Did(op, was) ==
    /\ lastOp' = Op(op, 0, was)
    /\ handled' = handled + 1
    /\ UNCHANGED <<storeState, extVars>>

Callable == handled < MaxHandled

Other == Did("storage", FALSE)

UpdateDisks ==
    /\ Callable
    /\ \E n \in Nodes :
          updateDisks(n) /\ Did("updateDisks", availableMode \in ActionStates)

ToggleFilesystemSelect ==
    /\ Callable
    /\ \E i \in DOMAIN filesystems :
           toggleFilesystemSelect(i) /\ Did("toggleFilesystem", filesystemMode \in ActionStates)

ToggleFilesystemAllSelect ==
    /\ Callable
    /\ toggleFilesystemAllSelect /\ Did("toggleFilesystem", filesystemMode \in ActionStates)

FilesystemCancel ==
    /\ Callable
    /\ filesystemCancel /\ Other

FilesystemUnmount ==
    /\ Callable
    /\ filesystemUnmount /\ Other

QuickFilesystemUnmount ==
    /\ Callable
    /\ \E i \in DOMAIN filesystems : quickFilesystemUnmount(i) /\ Other

FilesystemConfirmUnmount ==
    /\ Callable
    /\ \E i \in DOMAIN filesystems : filesystemConfirmUnmount(i) /\ Other

FilesystemDelete ==
    /\ Callable
    /\ filesystemDelete /\ Other

QuickFilesystemDelete ==
    /\ Callable
    /\ \E i \in DOMAIN filesystems : quickFilesystemDelete(i) /\ Other

FilesystemConfirmDelete ==
    /\ Callable
    /\ \E i \in DOMAIN filesystems : filesystemConfirmDelete(i) /\ Other

ToggleCacheSetSelect ==
    /\ Callable
    /\ \E i \in DOMAIN cachesets :
           toggleCacheSetSelect(i) /\ Did("toggleCacheSet", cachesetsMode \in ActionStates)

ToggleCacheSetAllSelect ==
    /\ Callable
    /\ toggleCacheSetAllSelect /\ Did("toggleCacheSet", cachesetsMode \in ActionStates)

CacheSetCancel ==
    /\ Callable
    /\ cacheSetCancel /\ Other

CacheSetDelete ==
    /\ Callable
    /\ cacheSetDelete /\ Other

QuickCacheSetDelete ==
    /\ Callable
    /\ \E i \in DOMAIN cachesets : quickCacheSetDelete(i) /\ Other

CacheSetConfirmDelete ==
    /\ Callable
    /\ \E i \in DOMAIN cachesets : cacheSetConfirmDelete(i) /\ Other

ToggleAvailableSelect ==
    /\ Callable
    /\ \E i \in DOMAIN available :
           toggleAvailableSelect(i) /\ Did("toggleAvailable", availableMode \in ActionStates)

ToggleAvailableAllSelect ==
    /\ Callable
    /\ toggleAvailableAllSelect /\ Did("toggleAvailable", availableMode \in ActionStates)

AvailableCancel ==
    /\ Callable
    /\ availableCancel /\ Other

AvailableUnformat ==
    /\ Callable
    /\ availableUnformat /\ Other

AvailableQuickUnformat ==
    /\ Callable
    /\ \E i \in DOMAIN available : availableQuickUnformat(i) /\ Other

AvailableConfirmUnformat ==
    /\ Callable
    /\ \E i \in DOMAIN available : availableConfirmUnformat(i) /\ Other

AvailableFormatAndMount ==
    /\ Callable
    /\ \E i \in DOMAIN available : availableFormatAndMount(i) /\ Other

AvailableQuickFormatAndMount ==
    /\ Callable
    /\ \E i \in DOMAIN available : availableQuickFormatAndMount(i) /\ Other

AvailableConfirmFormatAndMount ==
    /\ Callable
    /\ \E i \in DOMAIN available, fstype \in Fstypes, mountPoint \in MountPoints :
           availableConfirmFormatAndMount(i, fstype, mountPoint) /\ Other

AvailableDelete ==
    /\ Callable
    /\ availableDelete /\ Other

AvailableQuickDelete ==
    /\ Callable
    /\ \E i \in DOMAIN available : availableQuickDelete(i) /\ Other

AvailableConfirmDelete ==
    /\ Callable
    /\ \E i \in DOMAIN available : availableConfirmDelete(i) /\ Other

AvailablePartition ==
    /\ Callable
    /\ \E i \in DOMAIN available : availablePartition(i) /\ Other

AvailableQuickPartition ==
    /\ Callable
    /\ \E i \in DOMAIN available : availableQuickPartition(i) /\ Other

AvailableConfirmPartition ==
    /\ Callable
    /\ \E i \in DOMAIN available, size \in Sizes, fstype \in Fstypes, mountPoint \in MountPoints :
           availableConfirmPartition(i, size, fstype, mountPoint) /\ Other

CreateCacheSet ==
    /\ Callable
    /\ createCacheSet /\ Other

CreateBcache ==
    /\ Callable
    /\ createBcache /\ Other

\* availableNew.name is undefined until a create* handler has set it.
TypedNames == IF availableNew.kind = "{}" THEN {UndefinedName} ELSE NewNames

AvailableConfirmCreateBcache ==
    /\ Callable
    /\ \E name \in TypedNames, mountPoint \in MountPoints :
           availableConfirmCreateBcache(name, mountPoint) /\ Other

CreateRAID ==
    /\ Callable
    /\ createRAID /\ Other

AvailableConfirmCreateRAID ==
    /\ Callable
    /\ \E name \in TypedNames, mountPoint \in MountPoints :
           availableConfirmCreateRAID(name, mountPoint) /\ Other

CreateVolumeGroup ==
    /\ Callable
    /\ createVolumeGroup /\ Other

AvailableConfirmCreateVolumeGroup ==
    /\ Callable
    /\ \E name \in TypedNames : availableConfirmCreateVolumeGroup(name) /\ Other

AvailableLogicalVolume ==
    /\ Callable
    /\ \E i \in DOMAIN available : availableLogicalVolume(i) /\ Other

AvailableConfirmLogicalVolume ==
    /\ Callable
    /\ \E i \in DOMAIN available, name \in LogicalVolumeNames, size \in Sizes :
           availableConfirmLogicalVolume(i, name, size) /\ Other

StorageNext ==
    \/ UpdateDisks
    \/ ToggleFilesystemSelect
    \/ ToggleFilesystemAllSelect
    \/ FilesystemCancel
    \/ FilesystemUnmount
    \/ QuickFilesystemUnmount
    \/ FilesystemConfirmUnmount
    \/ FilesystemDelete
    \/ QuickFilesystemDelete
    \/ FilesystemConfirmDelete
    \/ ToggleCacheSetSelect
    \/ ToggleCacheSetAllSelect
    \/ CacheSetCancel
    \/ CacheSetDelete
    \/ QuickCacheSetDelete
    \/ CacheSetConfirmDelete
    \/ ToggleAvailableSelect
    \/ ToggleAvailableAllSelect
    \/ AvailableCancel
    \/ AvailableUnformat
    \/ AvailableQuickUnformat
    \/ AvailableConfirmUnformat
    \/ AvailableFormatAndMount
    \/ AvailableQuickFormatAndMount
    \/ AvailableConfirmFormatAndMount
    \/ AvailableDelete
    \/ AvailableQuickDelete
    \/ AvailableConfirmDelete
    \/ AvailablePartition
    \/ AvailableQuickPartition
    \/ AvailableConfirmPartition
    \/ CreateCacheSet
    \/ CreateBcache
    \/ AvailableConfirmCreateBcache
    \/ CreateRAID
    \/ AvailableConfirmCreateRAID
    \/ CreateVolumeGroup
    \/ AvailableConfirmCreateVolumeGroup
    \/ AvailableLogicalVolume
    \/ AvailableConfirmLogicalVolume

StorageSpec == Init /\ [][StorageNext]_vars

(***************************************************************************)
(* Next-state relation of Part III: at most MaxRpcs store method calls and *)
(* notifications, the server answering the calls in any order.             *)
(***************************************************************************)
notManager == <<storeVars, storageVars, raidVars, formVars, bootVars, uiVars>>

CanCall == Len(rpcs) + Len(notified) < MaxRpcs

Called(op, handler, item, interface_id, link_id, action, arg) ==
    /\ managerCall' = [n |-> managerCall.n + 1, op |-> op, handler |-> handler,
                       item |-> item, interface_id |-> interface_id,
                       link_id |-> link_id, action |-> action, arg |-> arg]
    /\ UNCHANGED <<power_state, consoleLog, notified, notManager>>

PerformAction ==
    \E h \in Handlers, c \in SystemIds, a \in NodeActions, extra \in CallerExtra :
        CanCall /\ performAction(h, c, a, extra)
                /\ Called("performAction", h, c, 0, 0, a, extra)

CreatePhysicalInterface ==
    \E h \in Handlers, c \in SystemIds, params \in CallerParams :
        CanCall /\ createPhysicalInterface(h, c, params)
                /\ Called("createPhysicalInterface", h, c, 0, 0, "", params)

CreateVLANInterface ==
    \E h \in Handlers, c \in SystemIds, params \in CallerParams :
        CanCall /\ createVLANInterface(h, c, params)
                /\ Called("createVLANInterface", h, c, 0, 0, "", params)

CreateBondInterface ==
    \E h \in Handlers, c \in SystemIds, params \in CallerParams :
        CanCall /\ createBondInterface(h, c, params)
                /\ Called("createBondInterface", h, c, 0, 0, "", params)

UpdateInterface ==
    \E h \in Handlers, c \in SystemIds, i \in InterfaceIds, params \in CallerParams :
        CanCall /\ updateInterface(h, c, i, params)
                /\ Called("updateInterface", h, c, i, 0, "", params)

DeleteInterface ==
    \E h \in Handlers, c \in SystemIds, i \in InterfaceIds :
        CanCall /\ deleteInterface(h, c, i)
                /\ Called("deleteInterface", h, c, i, 0, "", NoObject)

LinkSubnet ==
    \E h \in Handlers, c \in SystemIds, i \in InterfaceIds, params \in CallerParams :
        CanCall /\ linkSubnet(h, c, i, params)
                /\ Called("linkSubnet", h, c, i, 0, "", params)

UnlinkSubnet ==
    \E h \in Handlers, c \in SystemIds, i \in InterfaceIds, l \in LinkIds :
        CanCall /\ unlinkSubnet(h, c, i, l)
                /\ Called("unlinkSubnet", h, c, i, l, "", NoObject)

CheckPowerState ==
    \E c \in SystemIds :
        CanCall /\ checkPowerState("machine", c)
                /\ Called("checkPowerState", "machine", c, 0, 0, "", NoObject)

RpcResolved ==
    \E i \in DOMAIN rpcs, v \in Results : Respond(i, TRUE, v) /\ UNCHANGED notManager

RpcRejected ==
    \E i \in DOMAIN rpcs, e \in Errors : Respond(i, FALSE, e) /\ UNCHANGED notManager

Notified ==
    \E t \in ObjectTypes, a \in Actions :
        CanCall /\ Publish(t, a) /\ UNCHANGED notManager

ManagerNext ==
    \/ PerformAction
    \/ CreatePhysicalInterface
    \/ CreateVLANInterface
    \/ CreateBondInterface
    \/ UpdateInterface
    \/ DeleteInterface
    \/ LinkSubnet
    \/ UnlinkSubnet
    \/ CheckPowerState
    \/ RpcResolved
    \/ RpcRejected
    \/ Notified

ManagerSpec == Init /\ [][ManagerNext]_vars

\* The storage controller computing the size of the RAID being created.
GetNewRAIDSize ==
    \E devices \in DeviceLists :
        \E mode \in getAvailableRAIDModes(devices) :
            \E spares \in 0..getTotalNumberOfAvailableSpares(mode, devices) :
                /\ getNewRAIDSize(mode, devices, spares)
                /\ UNCHANGED <<storeVars, storageVars, managerVars, formVars, bootVars, uiVars>>

RaidNext == GetNewRAIDSize

RaidSpec == Init /\ [][RaidNext]_vars
(***************************************************************************)
(* Next-state relations of Part IV.                                        *)
(***************************************************************************)
notForm == <<storeVars, storageVars, managerVars, raidVars, bootVars, uiVars>>

CompileForm == \E m \in FormModes : Compile(m) /\ UNCHANGED notForm

ObjChanged == \E k \in FieldKeys, v \in FieldValues : ObjDigest(k, v) /\ UNCHANGED notForm

Focus == \E k \in FieldKeys : FieldFocus(k) /\ UNCHANGED notForm

Input == \E k \in FieldKeys, v \in FieldValues : FieldInput(k, v) /\ UNCHANGED notForm

Blur == \E k \in FieldKeys : FieldBlur(k) /\ UNCHANGED notForm

TimerFlushed == GroupTimer /\ UNCHANGED notForm

Click == SaveClick /\ UNCHANGED notForm

Resolved ==
    \E i \in DOMAIN form.saves, o \in FormObjects :
        /\ \A k \in FieldKeys \ form.saves[i].keys : o[k] = form.saves[i].obj[k]
        /\ SaveResolved(i, o)
        /\ UNCHANGED notForm

Rejected ==
    \E i \in DOMAIN form.saves, e \in ErrorPayloads :
        /\ form.rejects < MaxRejects
        /\ SaveRejected(i, e)
        /\ UNCHANGED notForm

FormNext ==
    \/ CompileForm
    \/ ObjChanged
    \/ Focus
    \/ Input
    \/ Blur
    \/ TimerFlushed
    \/ Click
    \/ Resolved
    \/ Rejected

FormSpec == Init /\ [][FormNext]_vars

notBoot == <<storeVars, storageVars, managerVars, raidVars, formVars, uiVars>>

Connect == connectCalls < MaxConnects /\ connect /\ UNCHANGED notBoot

SourceFetched ==
    \E i \in DOMAIN fetches, d \in FetchData : fetchResolved(i, d) /\ UNCHANGED notBoot

SourceFetchFailed ==
    \E i \in DOMAIN fetches, e \in FetchErrors : fetchRejected(i, e) /\ UNCHANGED notBoot

SourceEdited ==
    \E t \in SourceTypes, u \in Urls, f \in Keyrings, d \in Keyrings :
        setSource(t, u, f, d) /\ UNCHANGED notBoot

BootNext ==
    \/ Connect
    \/ SourceFetched
    \/ SourceFetchFailed
    \/ SourceEdited

BootSpec == Init /\ [][BootNext]_vars


(***************************************************************************)
(* Next-state relation of Part VIII.                                       *)
(***************************************************************************)
notBootDisk ==
    <<storeVars, storageVars, managerVars, raidVars, formVars, bootVars, imagesVars,
      listVars, validationVars, partitionVars, detailsVars>>

SetAsBootDisk ==
    \E section \in DOMAIN SectionItems : \E item \in SectionItems[section] :
        /\ Len(bootDiskRpcs) < MaxBootCalls
        /\ setAsBootDisk(item, section)
        /\ UNCHANGED notBootDisk

BootDiskNext == SetAsBootDisk

BootDiskSpec == Init /\ [][BootDiskNext]_vars
(***************************************************************************)
(* Next-state relation of Part V.                                          *)
(***************************************************************************)
notImages == <<storeVars, storageVars, managerVars, raidVars, formVars, bootVars, listVars, validationVars, bootDiskVars, partitionVars, detailsVars>>

CanCallImages == Len(imageRpcs) < MaxImageRpcs

OtherImagesChanged == \E l \in OtherLists : otherImagesWatch(l) /\ UNCHANGED notImages

ToggleOtherSelection ==
    \E i \in DOMAIN images.other.images : toggleOtherSelection(i) /\ UNCHANGED notImages

ToggleSelection ==
    \E kind \in SelectionKinds : \E obj \in Offered[kind] :
        toggleSelection(kind, obj) /\ UNCHANGED notImages

UbuntuImagesRegenerated ==
    \E l \in UbuntuImageLists : ubuntuImagesRegenerated(l) /\ UNCHANGED notImages

SourceChanged == sourceChangedNoSources /\ UNCHANGED notImages

\* The user switches between the maas.io source and a custom one.
SourceSwitched ==
    \E t \in SourceTypes :
        setSource(t, IF t = "custom" THEN "url" ELSE "", "", "") /\ UNCHANGED notBoot

SaveSelection == CanCallImages /\ saveSelection /\ UNCHANGED notImages

SaveOtherSelection == CanCallImages /\ saveOtherSelection /\ UNCHANGED notImages

StopImport == CanCallImages /\ stopImport /\ UNCHANGED notImages

ImageRpcResolved == \E i \in DOMAIN imageRpcs : imageRpcResolved(i) /\ UNCHANGED notImages

ImagesNext ==
    \/ OtherImagesChanged
    \/ ToggleOtherSelection
    \/ ToggleSelection
    \/ UbuntuImagesRegenerated
    \/ SourceChanged
    \/ SourceSwitched
    \/ SaveSelection
    \/ SaveOtherSelection
    \/ StopImport
    \/ ImageRpcResolved

ImagesSpec == Init /\ [][ImagesNext]_vars


(***************************************************************************)
(* Next-state relation of Part VI.                                         *)
(***************************************************************************)
notList == <<storeVars, storageVars, managerVars, raidVars, formVars, bootVars, imagesVars, validationVars, bootDiskVars, partitionVars, detailsVars>>

\* The history variable: it is set by an option selection made while no
\* option is chosen, kept by the selections that follow it at once, turned
\* into "cancelled" by actionCancel and forgotten by every other step.
NoHistory == {"none", "cancelled"}

Forgotten == searchBefore' = "none"

Remembered ==
    searchBefore' = IF searchBefore \notin NoHistory THEN searchBefore
                    ELSE IF listTab.actionOption = "null" THEN listTab.search
                    ELSE "none"

Cancelled == searchBefore' = "cancelled"

ToggleChecked == \E id \in ListIds : toggleChecked(id) /\ Forgotten /\ UNCHANGED notList

ClearSearch == clearSearch /\ Forgotten /\ UNCHANGED notList

SearchEdited == \E text \in TypedSearches : searchEdited(text) /\ Forgotten /\ UNCHANGED notList

ShowSelected == showSelected /\ Forgotten /\ UNCHANGED notList

ActionOptionSelected ==
    \E option \in ActionOptions : actionOptionSelected(option) /\ Remembered /\ UNCHANGED notList

ActionCancel == actionCancel /\ Cancelled /\ UNCHANGED notList

ActionGo ==
    /\ Len(actionPromises) + Len(listTab.selectedItems) <= MaxPromises
    /\ actionGo
    /\ Forgotten
    /\ UNCHANGED notList

PerformActionResolved ==
    \E i \in DOMAIN actionPromises : performActionResolved(i) /\ Forgotten /\ UNCHANGED notList

PerformActionRejected ==
    \E i \in DOMAIN actionPromises : \E error \in ActionErrors :
        performActionRejected(i, error) /\ Forgotten /\ UNCHANGED notList

ListNext ==
    \/ ToggleChecked
    \/ ClearSearch
    \/ SearchEdited
    \/ ShowSelected
    \/ ActionOptionSelected
    \/ ActionCancel
    \/ ActionGo
    \/ PerformActionResolved
    \/ PerformActionRejected

ListSpec == Init /\ [][ListNext]_vars

\* The user waits for an action to finish: no handler of the user runs while
\* a performAction promise is in flight.
Idle == actionPromises = <<>>

RunNext ==
    \/ Idle /\ ToggleChecked
    \/ Idle /\ SearchEdited
    \/ Idle /\ ActionOptionSelected
    \/ Idle /\ ActionCancel
    \/ Idle /\ ActionGo
    \/ PerformActionResolved
    \/ PerformActionRejected

RunSpec == Init /\ [][RunNext]_vars

(***************************************************************************)
(* Next-state relation of Part VII.                                        *)
(***************************************************************************)
notValidation ==
    <<storeVars, storageVars, managerVars, raidVars, formVars, bootVars, imagesVars, listVars, bootDiskVars, partitionVars, detailsVars>>

ValidateIPInRange ==
    \E ipAddress \in Addresses, network \in Networks,
       lowAddress \in Addresses, highAddress \in Addresses :
        called(ipAddress, network, lowAddress, highAddress) /\ UNCHANGED notValidation

ValidateIPInRangeReturned == returned /\ UNCHANGED notValidation

ValidationNext ==
    \/ ValidateIPInRange
    \/ ValidateIPInRangeReturned

ValidationSpec == Init /\ [][ValidationNext]_vars

(***************************************************************************)
(* Next-state relation of Part IX: the storage handlers that lead to a     *)
(* partition, and availableConfirmPartition with its RPC.                  *)
(***************************************************************************)
notPartition ==
    <<managerVars, raidVars, formVars, bootVars, imagesVars, listVars, validationVars,
      bootDiskVars, detailsVars>>

AvailableConfirmPartitionCalled ==
    /\ Callable
    /\ \E i \in DOMAIN available, size \in Sizes, fstype \in Fstypes, mountPoint \in MountPoints :
           availableConfirmPartitionCalled(i, size, fstype, mountPoint)
    /\ lastOp' = Op("storage", 0, FALSE)
    /\ handled' = handled + 1
    /\ UNCHANGED <<storeState, notPartition>>

PartitionNext ==
    \/ UpdateDisks
    \/ AvailablePartition
    \/ AvailableQuickPartition
    \/ AvailableCancel
    \/ AvailableConfirmPartitionCalled

PartitionSpec == Init /\ [][PartitionNext]_vars

(***************************************************************************)
(* Next-state relation of Part X.                                          *)
(***************************************************************************)
notDetails ==
    <<storeVars, storageVars, managerVars, raidVars, formVars, bootVars, imagesVars,
      listVars, validationVars, bootDiskVars, partitionVars>>

ActionOptionChanged ==
    \E option \in DetailActions : actionOptionChanged(option) /\ UNCHANGED notDetails

DetailsActionCancel == detailsActionCancel /\ UNCHANGED notDetails

DetailsActionGo ==
    /\ Len(detailRpcs) < MaxDetailRpcs
    /\ detailsActionGo
    /\ UNCHANGED notDetails

DetailsActionResolved ==
    \E i \in DOMAIN detailRpcs : detailsActionResolved(i) /\ UNCHANGED notDetails

DetailsActionRejected ==
    \E i \in DOMAIN detailRpcs : \E error \in ActionErrors :
        detailsActionRejected(i, error) /\ UNCHANGED notDetails

DetailsNext ==
    \/ ActionOptionChanged
    \/ DetailsActionCancel
    \/ DetailsActionGo
    \/ DetailsActionResolved
    \/ DetailsActionRejected

DetailsSpec == Init /\ [][DetailsNext]_vars

(***************************************************************************)
(* Properties of Part I.                                                   *)
(***************************************************************************)

\* C1: when setActiveItem(A) and then setActiveItem(B) are called for keys not
\* held locally, B while A's get RPC is in flight, and B is the latest call,
\* then once both RPCs have resolved, in either order, the active item is B's.
C1_LatestActivationWins ==
    \A i \in DOMAIN calls, j \in DOMAIN calls :
        ( /\ i < j
          /\ j = Len(calls)
          /\ calls[i].rpc /\ calls[j].rpc
          /\ i \in calls[j].over
          /\ calls[i].key # calls[j].key
          /\ calls[i].done = "ok" /\ calls[j].done = "ok" )
        => (activeItem # 0 /\ objs[activeItem].pk = calls[j].key)

\* C1 witness: both get RPCs resolved, A's after B's.
C1_Witness ==
    \E i \in DOMAIN calls, j \in DOMAIN calls :
        /\ i < j
        /\ j = Len(calls)
        /\ calls[i].rpc /\ calls[j].rpc
        /\ i \in calls[j].over
        /\ calls[i].key # calls[j].key
        /\ calls[i].done = "ok" /\ calls[j].done = "ok"
        /\ calls[i].at > calls[j].at

UniqueKeys ==
    \A i \in DOMAIN items, j \in DOMAIN items :
        i # j => objs[items[i]].pk # objs[items[j]].pk

IdentityKept ==
    \A k \in Keys :
        (getItemFromList(k) # 0 /\ getItemFromListIn(objs', items', k) # 0)
        => getItemFromListIn(objs', items', k) = getItemFromList(k)

\* C2: the collection never holds two Items with one primary key, and a step
\* that finds a key held and leaves it held keeps the same object for it.
C2_OneItemPerKeyInPlace == [](UniqueKeys) /\ [][IdentityKept]_vars

\* C2 witness: server data for a key already held has been reconciled.
C2_Witness == lastOp.op \in {"put", "updated", "created"} /\ lastOp.was /\ Len(items) > 1

\* C3: after a delete RPC resolved for key k, or a "deleted" notification for
\* k was handled, k is in neither the collection nor the selection set.
C3_DeleteClearsSelection ==
    lastOp.op \in {"remove", "deleted"}
    => (~isSelected(lastOp.key) /\ getItemFromList(lastOp.key) = 0)

\* C3 witness: a delete RPC resolved for an item that was held and selected.
C3_Witness == lastOp.op = "remove" /\ lastOp.was

\* C4: issuing an update (updateItem, or saveEditSummary through updateNode)
\* and having it rejected changes no field of any stored Item, so the node on
\* the scope keeps its values.
C4_RejectedUpdateKeepsItem ==
    [][(UpdateCall \/ SaveEditSummary \/ UpdateFail) => (objs' = objs /\ items' = items)]_vars

\* C4 witness: the server rejected an updateNode whose values differ from the
\* node on the scope.
C4_Witness ==
    /\ lastOp.op = "updateNodeRejected"
    /\ lastOp.was
    /\ scopeNode # 0
    /\ objs[scopeNode].pk = lastOp.key

\* C5: after any sequence of notifications the collection equals the result
\* of applying them one by one in arrival order, and a "deleted" notification
\* for a key that is not held changes nothing in the store.
C5_NotificationsInOrder ==
    /\ [](Contents = shadow)
    /\ [][\A d \in ItemData :
            (onNotify("deleted", d) /\ getItemFromList(d.pk) = 0)
            => UNCHANGED <<objs, items, selected>>]_vars

\* C5 witness: a "deleted" notification for an unknown key was handled while
\* the collection held items.
C5_Witness == lastOp.op = "deleted" /\ ~lastOp.was /\ shadow # <<>>

(***************************************************************************)
(* Part II properties.                                                     *)
(***************************************************************************)
\* The mode that goes with the number of selected rows.
ModeByCount(rows) ==
    IF SelectedCount(rows) = 0 THEN SELECTION_MODE.NONE
    ELSE IF SelectedCount(rows) = 1 THEN SELECTION_MODE.SINGLE
    ELSE SELECTION_MODE.MUTLI

\* C6: in each section, a step that puts the mode into an action state it
\* was not in leaves at least one row of that section selected, so the mode
\* never goes from NONE into an action state with nothing selected.
C6_ActionStateNeedsSelectedRow ==
    [][/\ (filesystemMode' \in ActionStates /\ filesystemMode' # filesystemMode)
              => SelectedCount(filesystems') >= 1
       /\ (cachesetsMode' \in ActionStates /\ cachesetsMode' # cachesetsMode)
              => SelectedCount(cachesets') >= 1
       /\ (availableMode' \in ActionStates /\ availableMode' # availableMode)
              => SelectedCount(available') >= 1]_vars

LeaveFilesystem ==
    \/ filesystemCancel
    \/ \E i \in DOMAIN filesystems : filesystemConfirmUnmount(i)
    \/ \E i \in DOMAIN filesystems : filesystemConfirmDelete(i)

LeaveCacheSets ==
    \/ cacheSetCancel
    \/ \E i \in DOMAIN cachesets : cacheSetConfirmDelete(i)

LeaveAvailable ==
    \/ availableCancel
    \/ \E i \in DOMAIN available : availableConfirmUnformat(i)
    \/ \E i \in DOMAIN available : availableConfirmDelete(i)
    \/ \E i \in DOMAIN available, fstype \in Fstypes, mountPoint \in MountPoints :
          availableConfirmFormatAndMount(i, fstype, mountPoint)
    \/ \E i \in DOMAIN available, size \in Sizes, fstype \in Fstypes,
          mountPoint \in MountPoints :
          availableConfirmPartition(i, size, fstype, mountPoint)
    \/ \E name \in TypedNames, mountPoint \in MountPoints :
          availableConfirmCreateBcache(name, mountPoint)
    \/ \E name \in TypedNames, mountPoint \in MountPoints :
          availableConfirmCreateRAID(name, mountPoint)
    \/ \E name \in TypedNames : availableConfirmCreateVolumeGroup(name)
    \/ \E i \in DOMAIN available, name \in LogicalVolumeNames, size \in Sizes :
          availableConfirmLogicalVolume(i, name, size)

\* C7: from an action state of a section, cancel and every confirm that
\* passes its validation leave the section's mode at NONE, SINGLE or MULTI,
\* the one that goes with the number of rows then selected.
C7_CancelAndConfirmLeaveActionState ==
    [][/\ (filesystemMode \in ActionStates /\ LeaveFilesystem)
              => filesystemMode' = ModeByCount(filesystems')
       /\ (cachesetsMode \in ActionStates /\ LeaveCacheSets)
              => cachesetsMode' = ModeByCount(cachesets')
       /\ (availableMode \in ActionStates /\ LeaveAvailable)
              => availableMode' = ModeByCount(available')]_vars

\* "The list is not empty and every row of it is selected."
EveryRowSelected(rows) == Len(rows) > 0 /\ \A i \in DOMAIN rows : rows[i].selected

\* C8: in every reachable state each section's all-selected flag is true
\* iff the section's list is not empty and every row of it is selected.
C8_AllSelectedFlagsFollowRows ==
    /\ filesystemAllSelected <=> EveryRowSelected(filesystems)
    /\ cachesetsAllSelected <=> EveryRowSelected(cachesets)
    /\ availableAllSelected <=> EveryRowSelected(available)

UniqueRowKeys(rows) ==
    \A i, j \in DOMAIN rows : i # j => getUniqueKey(rows[i]) # getUniqueKey(rows[j])

SameKey(old, new) == getUniqueKey(old) = getUniqueKey(new)

\* Each rebuilt row has the $selected of the old rows with its key, and is
\* unselected when there is none.
SelectedCarried(old, new) ==
    \A j \in DOMAIN new :
        IF \E i \in DOMAIN old : SameKey(old[i], new[j])
        THEN \A i \in DOMAIN old : SameKey(old[i], new[j]) => new[j].selected = old[i].selected
        ELSE ~new[j].selected

OptionsCarried(old, new) ==
    \A j \in DOMAIN new, i \in DOMAIN old :
        SameKey(old[i], new[j]) => new[j].options = old[i].options

\* C9: no two rows of a section share a unique key, and a rebuild on a
\* change of node.disks gives each row the $selected (for available, also
\* the $options) of the previous row with its key, and leaves the rows with
\* a new key unselected.
C9_RebuildCarriesRowStateByKey ==
    /\ [](UniqueRowKeys(filesystems) /\ UniqueRowKeys(cachesets) /\ UniqueRowKeys(available))
    /\ [][(\E n \in Nodes : updateDisks(n)) =>
              /\ SelectedCarried(filesystems, filesystems')
              /\ SelectedCarried(cachesets, cachesets')
              /\ SelectedCarried(available, available')
              /\ OptionsCarried(available, available')]_vars

\* C10: when a toggle or toggle-all of a section has returned, the section's
\* mode is NONE with no row selected, SINGLE with one and MULTI with more.
C10_ToggleSetsModeByCount ==
    /\ lastOp.op = "toggleFilesystem" => filesystemMode = ModeByCount(filesystems)
    /\ lastOp.op = "toggleCacheSet" => cachesetsMode = ModeByCount(cachesets)
    /\ lastOp.op = "toggleAvailable" => availableMode = ModeByCount(available)

\* C10 witness: a toggle ran while its section was in an action state and
\* left two rows selected.
C10_Witness ==
    /\ lastOp.op = "toggleFilesystem"
    /\ lastOp.was
    /\ SelectedCount(filesystems) = 2
    /\ filesystemMode = SELECTION_MODE.MUTLI

(***************************************************************************)
(* Properties of Part III.                                                 *)
(***************************************************************************)
MutationOps ==
    {"performAction", "createPhysicalInterface", "createVLANInterface",
     "createBondInterface", "updateInterface", "deleteInterface", "linkSubnet",
     "unlinkSubnet"}

Verb(op) ==
    CASE op = "performAction" -> "action"
      [] op = "createPhysicalInterface" -> "create_physical"
      [] op = "createVLANInterface" -> "create_vlan"
      [] op = "createBondInterface" -> "create_bond"
      [] op = "updateInterface" -> "update_interface"
      [] op = "deleteInterface" -> "delete_interface"
      [] op = "linkSubnet" -> "link_subnet"
      [] op = "unlinkSubnet" -> "unlink_subnet"
      [] op = "checkPowerState" -> "check_power"

\* The fields a method sets itself.
OwnFields(op) ==
    CASE op = "performAction" -> {"system_id", "action", "extra"}
      [] op \in {"createPhysicalInterface", "createVLANInterface", "createBondInterface"}
            -> {"system_id"}
      [] op \in {"updateInterface", "deleteInterface", "linkSubnet"}
            -> {"system_id", "interface_id"}
      [] op = "unlinkSubnet" -> {"system_id", "interface_id", "link_id"}
      [] op = "checkPowerState" -> {"system_id"}

\* The call c appended exactly one RPC, r, to the calls made before.
OneRpc(c, r) ==
    /\ Len(rpcs') = Len(rpcs) + 1
    /\ SubSeq(rpcs', 1, Len(rpcs)) = rpcs
    /\ r.method = <<c.handler, Verb(c.op)>>
    /\ r.state = "pending"

\* The params of r are the fields of the method, from the arguments of the
\* call, and the caller's other fields as they were given.
ParamsShaped(c, r) ==
    /\ DOMAIN r.params = OwnFields(c.op) \cup DOMAIN c.arg.fields
           \/ (c.op = "performAction" /\ DOMAIN r.params = OwnFields(c.op))
    /\ r.params["system_id"] = c.item
    /\ "interface_id" \in OwnFields(c.op) => r.params["interface_id"] = c.interface_id
    /\ "link_id" \in OwnFields(c.op) => r.params["link_id"] = c.link_id
    /\ c.op = "performAction" =>
           /\ r.params["action"] = c.action
           /\ r.params["extra"] = IF c.arg.defined THEN c.arg.fields ELSE <<>>
    /\ c.op # "performAction" =>
           \A k \in DOMAIN c.arg.fields \ OwnFields(c.op) : r.params[k] = c.arg.fields[k]

\* C11: every mutation method of the specialised stores issues exactly one
\* RPC named <handler>.<verb> whose params hold the item's system_id, the
\* interface_id / link_id and the caller's fields (performAction: system_id,
\* action and extra, extra being {} when none is given), and returns that
\* RPC's promise itself: its holder sees the server's result or error as it
\* is, and an answer never makes the store call again.
C11_MutationIsOneRpcReturned ==
    /\ [][(managerCall'.n # managerCall.n /\ managerCall'.op \in MutationOps) =>
              /\ OneRpc(managerCall', rpcs'[Len(rpcs')])
              /\ ParamsShaped(managerCall', rpcs'[Len(rpcs')])
              /\ promise' = [rpc |-> Len(rpcs'), then |-> "none"]]_vars
    /\ [][managerCall'.n = managerCall.n =>
              /\ Len(rpcs') = Len(rpcs)
              /\ \A i \in DOMAIN rpcs :
                     /\ rpcs'[i].method = rpcs[i].method
                     /\ rpcs'[i].params = rpcs[i].params]_vars
    /\ [](managerCall.op \in MutationOps =>
              Outcome(promise) = [state |-> rpcs[promise.rpc].state,
                                  value |-> rpcs[promise.rpc].value])

\* C11 witness: createPhysicalInterface was given params with a system_id
\* of their own, and its RPC was rejected.
C11_Witness ==
    /\ managerCall.op = "createPhysicalInterface"
    /\ managerCall.arg.defined
    /\ "system_id" \in DOMAIN managerCall.arg.fields
    /\ managerCall.arg.fields["system_id"] # managerCall.item
    /\ Outcome(promise).state = "rejected"
    /\ Outcome(promise).value \in Errors

\* Half blocks of a size in whole blocks.
Halves(size) == 2 * size

\* C12: for every RAID mode and every minimum size and number of disks the
\* controller can ask for, calculateSize is: raid-0 minSize*numDisks, raid-1
\* minSize, raid-5 minSize*(numDisks-1), raid-6 minSize*(numDisks-2),
\* raid-10 minSize*numDisks/2.
C12_RAIDSizeByMode ==
    raid.level # "" =>
        LET numDisks == Len(raid.devices) - raid.spares
            minSize == MinSize(raid.devices)
        IN /\ raid.level = "raid-0" => raid.size = Halves(minSize * numDisks)
           /\ raid.level = "raid-1" => raid.size = Halves(minSize)
           /\ raid.level = "raid-5" => raid.size = Halves(minSize * (numDisks - 1))
           /\ raid.level = "raid-6" => raid.size = Halves(minSize * (numDisks - 2))
           /\ raid.level = "raid-10" => 2 * raid.size = Halves(minSize * numDisks)

\* C12 witness: a raid-6 of four devices of different sizes, and a raid-10
\* with a spare whose size is not a whole number of blocks.
C12_Witness ==
    \/ /\ raid.level = "raid-6"
       /\ Len(raid.devices) = 4
       /\ raid.devices[1] # raid.devices[2]
       /\ raid.size = Halves(2 * MinSize(raid.devices))
    \/ /\ raid.level = "raid-10"
       /\ raid.spares = 1
       /\ raid.size % 2 = 1

\* C13: the onNotify of ControllersManager, whose handler is "controller",
\* runs for the notifications of the object type "controller" and for no
\* others.
C13_ControllersNotifiedOfControllers ==
    \A i \in DOMAIN notified :
        notified[i].onNotify <=> notified[i].type = ControllersManager.handler

\* C14: checkPowerState issues <handler>.check_power with the machine's
\* system_id; when the RPC succeeds, power_state is the returned state and
\* the promise resolves with it; when it fails, power_state is "error", the
\* error is logged, and the promise still resolves, with "error".
C14_CheckPowerStateAlwaysResolves ==
    /\ [][(managerCall'.n # managerCall.n /\ managerCall'.op = "checkPowerState") =>
              /\ OneRpc(managerCall', rpcs'[Len(rpcs')])
              /\ rpcs'[Len(rpcs')].params = [system_id |-> managerCall'.item]]_vars
    /\ [][\A i \in DOMAIN rpcs :
              (rpcs[i].method[2] = "check_power" /\ rpcs[i].state = "pending"
                   /\ rpcs'[i].state # "pending") =>
                  IF rpcs'[i].state = "resolved"
                  THEN /\ power_state'[rpcs[i].params.system_id] = rpcs'[i].value
                       /\ consoleLog' = consoleLog
                  ELSE /\ power_state'[rpcs[i].params.system_id] = "error"
                       /\ consoleLog' = Append(consoleLog, rpcs'[i].value)]_vars
    /\ [](managerCall.op = "checkPowerState" =>
              /\ rpcs[promise.rpc].state = "resolved" =>
                     Outcome(promise) = [state |-> "resolved",
                                         value |-> rpcs[promise.rpc].value]
              /\ rpcs[promise.rpc].state = "rejected" =>
                     Outcome(promise) = [state |-> "resolved", value |-> "error"])

\* C14 witness: the check_power RPC of the last call failed.
C14_Witness ==
    /\ managerCall.op = "checkPowerState"
    /\ rpcs[promise.rpc].state = "rejected"
    /\ power_state[managerCall.item] = "error"
    /\ consoleLog = <<rpcs[promise.rpc].value>>
    /\ Outcome(promise).state = "resolved"
\* The updateItem calls a step of the form makes.
NewSaves ==
    IF form'.calls = form.calls THEN <<>>
    ELSE SubSeq(form'.saves, Len(form.saves) + 1, Len(form'.saves))

\* The field of key k loses the focus in this step.
Blurred(k) == fields[k].editing /\ ~fields'[k].editing

\* C15: a blur of a save-on-blur field calls updateItem with the object
\* carrying the field's changed value when the value differs from the
\* object's, and does not call it when the value is unchanged; with
\* save-on-blur="false" a blur never calls updateItem, only a click on
\* maas-obj-save does.
C15_SaveOnBlur ==
    [][/\ form.mode = "blur" =>
              \A k \in FieldKeys : Blurred(k) =>
                  IF fields[k].value # formObj[k]
                  THEN /\ Len(NewSaves) = 1
                       /\ NewSaves[1].obj = [formObj EXCEPT ![k] = fields[k].value]
                  ELSE NewSaves = <<>>
       /\ form.mode = "form" =>
              /\ (\E k \in FieldKeys : Blurred(k)) => NewSaves = <<>>
              /\ \A n \in DOMAIN NewSaves : NewSaves[n].by = "click"]_vars

\* C15 witness: a changed value was saved on blur, or a form without
\* save-on-blur was saved by a click after the blur of a changed field.
C15_Witness ==
    \/ /\ form.mode = "blur" /\ Len(form.saves) = 1
       /\ form.saves[1].by = "blur" /\ form.saves[1].obj # formObj
    \/ /\ form.mode = "form" /\ Len(form.saves) = 1
       /\ form.saves[1].by = "click" /\ form.saves[1].obj # formObj
       /\ \A k \in FieldKeys : ~fields[k].editing

\* The errors a rejection r puts on the field of key k: those of the key k of
\* a JSON payload; on the field the save was made from, also a plain string
\* and, as "key: error", the errors of a key that is no field of the form.
ShownOn(k, r) ==
    IF r.error.kind = "string" THEN (IF k = r.key THEN << <<r.error.text>> >> ELSE <<>>)
    ELSE (IF k \in DOMAIN r.error.map THEN Lines(r.error.map[k]) ELSE <<>>)
         \o (IF k = r.key
             THEN LET other == DOMAIN r.error.map \ (FieldKeys \cup {"__all__"}) IN
                  IF other = {} THEN <<>>
                  ELSE LET o == CHOOSE o \in other : TRUE IN Prefixed(o, r.error.map[o])
             ELSE <<>>)

\* C16: when a save is rejected, a plain string error is shown on the field
\* being saved; each key of a JSON mapping that is a field of the form has
\* its errors shown on that field, for every such field; the errors of a
\* key that is no field are shown on the edited field as "key: error"; the
\* "__all__" errors are the form's (maas-obj-errors).
C16_RejectedSaveErrors ==
    [][form'.rejection # NoRejection =>
           LET r == form'.rejection IN
           /\ \A k \in FieldKeys :
                  ShownOn(k, r) # <<>> => fields'[k].errors = ShownOn(k, r)
           /\ (r.error.kind = "json" /\ "__all__" \in DOMAIN r.error.map) =>
                  form'.errors = Lines(r.error.map["__all__"])]_vars

\* C16 witness: a save made from key2 was rejected with errors for key1 and
\* key2, and both fields show their own.
C16_Witness ==
    /\ form.rejection.key = "key2"
    /\ form.rejection.error.kind = "json"
    /\ {"key1", "key2"} \subseteq DOMAIN form.rejection.error.map
    /\ fields["key1"].errors = << <<"e1">>, <<"e2">> >>
    /\ fields["key2"].errors = << <<"e1">> >>

\* C17: inside one maas-obj-field-group, a step in which some field of the
\* group still has the focus calls updateItem never, the blur timer firing
\* included; when the timer fires with the focus outside every field and
\* values changed, updateItem is called once, with the changed values of
\* all the fields together.
C17_GroupSavesOnce ==
    [][form.mode = "group" =>
           /\ (\E k \in FieldKeys : fields'[k].editing \/ fields[k].editing) =>
                  NewSaves = <<>>
           /\ (form.timer /\ ~form'.timer) =>
                  IF (\A k \in FieldKeys : ~fields[k].editing)
                     /\ (\E k \in FieldKeys : fields[k].value # formObj[k])
                  THEN /\ Len(NewSaves) = 1
                       /\ NewSaves[1].obj = [k \in FieldKeys |-> fields[k].value]
                  ELSE NewSaves = <<>>
           /\ NewSaves # <<>> => form.timer /\ ~form'.timer]_vars

\* C17 witness: both fields of the group were changed, one after the other,
\* and one save carries both values.
C17_Witness ==
    /\ form.mode = "group"
    /\ form.calls = 1
    /\ Len(form.saves) = 1
    /\ \A k \in FieldKeys : form.saves[1].obj[k] # formObj[k]

\* C18: when the object's value of a key changes, the field of that key
\* keeps the value it shows while it has the focus, and, in a group, while
\* any field of the group has the focus; a field that is not in focus, and
\* whose group is not being edited, shows the object's new value.  No other
\* field changes.
C18_FocusedFieldNotOverwritten ==
    [][\A k \in FieldKeys :
           formObj'[k] # formObj[k] =>
               /\ IF fields[k].editing
                     \/ (form.mode = "group" /\ \E j \in FieldKeys : fields[j].editing)
                  THEN fields'[k].value = fields[k].value
                  ELSE fields'[k].value = formObj'[k]
               /\ \A j \in FieldKeys \ {k} : fields'[j] = fields[j]]_vars

\* C18 witness: in a group, the object's key1 changed while key2 had the
\* focus, and the field of key1 still shows the old value.
C18_Witness ==
    /\ form.mode = "group"
    /\ fields["key2"].editing
    /\ fields["key2"].value = formObj["key2"]
    /\ fields["key1"].value # formObj["key1"]
    /\ form.calls = 0

C21_OtherImagesKeptWhenChanged ==
    [][images'.other_images # images.other_images =>
           /\ images'.other.images = IF images.other.changed THEN images.other.images
                                     ELSE images'.other_images
           /\ "regenerateOtherImages" \in images'.called]_vars

\* C21 witness: the server's list changed while the user's selection was
\* unsaved, and other.images is still the user's.
C21_Witness ==
    /\ images.other.changed
    /\ images.other.images # images.other_images
    /\ images.other_images = <<>>
    /\ images.called = {"regenerateOtherImages"}

\* The call in flight that a step resolves.
ResolvedImageRpc(method) ==
    \E i \in DOMAIN imageRpcs :
        imageRpcs[i] = method /\ imageRpcs' = Without(imageRpcs, i)

\* C22: saveSelection() sets saving and calls saveUbuntu with the source
\* parameters and the names of the selected releases and arches; when that
\* call resolves, saving is false, source.isNew is false,
\* source.selections.changed is false and updateSource has been called.
C22_SaveSelection ==
    [][/\ imageRpcs' = Append(imageRpcs, "saveUbuntu") =>
              /\ images'.saving
              /\ images'.sent.method = "saveUbuntu"
              /\ images'.sent.source = getSourceParams(source)
              /\ images'.sent.releases =
                     [j \in DOMAIN images.selections.releases |->
                          images.selections.releases[j].name]
              /\ images'.sent.arches =
                     [j \in DOMAIN images.selections.arches |->
                          images.selections.arches[j].name]
       /\ ResolvedImageRpc("saveUbuntu") =>
              /\ ~images'.saving
              /\ ~images'.isNew
              /\ ~images'.selections.changed
              /\ "updateSource" \in images'.called]_vars

\* C22 witness: a custom source with a changed selection of a release and an
\* architecture was saved, and the save has resolved.
C22_Witness ==
    /\ images.called = {"updateSource"}
    /\ ~images.saving /\ ~images.isNew /\ ~images.selections.changed
    /\ images.selections.releases # <<>>
    /\ images.selections.arches # <<>>
    /\ source.source_type = "custom"
    /\ imageRpcs = <<>>

C24_SelectedAreRejected ==
    [][(/\ actionPromises # <<>>
        /\ actionPromises' = <<>>
        /\ hasActionsFailed(listTab'))
       => Range(listTab'.selectedItems) =
              UNION {Range(listTab'.actionProgress.errors[e]) :
                         e \in DOMAIN listTab'.actionProgress.errors}]_vars

\* C26: on a tab with selected items, actionCancel, called after
\* actionOptionSelected has been called once or several times, leaves the
\* tab with the search it had before the first of these option selections,
\* with no action option and with its progress reset.
C26_CancelRestoresSearch ==
    [][(/\ searchBefore \notin NoHistory
        /\ searchBefore' = "cancelled"
        /\ listTab.selectedItems # <<>>)
       => (/\ listTab'.search = searchBefore
           /\ listTab'.actionOption = "null"
           /\ listTab'.actionProgress = NoProgress)]_vars

\* C27: the action progress of a tab always has 0 <= completed <= total,
\* also when actionCancel, clearAction or a second actionGo run while
\* performAction promises are in flight.
C27_CompletedWithinTotal ==
    /\ 0 <= listTab.actionProgress.completed
    /\ listTab.actionProgress.completed <= listTab.actionProgress.total

\* C25: when availableConfirmCreateRAID or availableConfirmCreateVolumeGroup
\* passes its validation, the rows removed from available are exactly the
\* rows of availableNew.devices, every other row stays, and availableNew is
\* reset to {}.
C25_DevicesRemovedFromAvailable ==
    [][(/\ availableNew.kind \in {"raid", "volume-group"}
        /\ availableNew' = EmptyNew
        /\ node' = node
        /\ Len(available') < Len(available))
       => LET devices == {availableNew.devices[d].key : d \in DOMAIN availableNew.devices}
          IN  {getUniqueKey(available'[i]) : i \in DOMAIN available'} =
                  {getUniqueKey(available[i]) : i \in DOMAIN available} \ devices]_vars

\* C28: validateIPInRange(ip, network, low, high) is true exactly when ip is
\* in the network and low <= ip <= high, inclusive, the three compared as
\* whole addresses.
C28_RangeAsWholeAddresses ==
    validation.result \in {"true", "false"} =>
        LET ip == validation.ipAddress
            low == validation.lowAddress
            high == validation.highAddress
            within ==
                IF validateIPv4(ip) /\ validateIPv4(low) /\ validateIPv4(high)
                THEN OctetsWithinAsAddress(ipv4ToOctets(ip), ipv4ToOctets(low),
                                           ipv4ToOctets(high), 4)
                ELSE IF validateIPv6(ip) /\ validateIPv6(low) /\ validateIPv6(high)
                THEN OctetsWithinAsAddress(ipv6ToOctets(ip), ipv6ToOctets(low),
                                           ipv6ToOctets(high), 8)
                ELSE FALSE
        IN  validation.result = "true" <=> (validateIPInNetwork(ip, validation.network) /\ within)

\* C29: setAsBootDisk issues the setBootDisk RPC only when the item is not
\* the boot disk already and isBootDiskDisabled is false for it: none is
\* issued for an item that is not physical, nor for a disk of the used
\* section that has no partitions.
C29_BootDiskRpcOnlyWhenEnabled ==
    [][bootDiskRpcs' # bootDiskRpcs
       => (/\ ~bootDisk'.item.is_boot
           /\ ~isBootDiskDisabled(bootDisk'.item, bootDisk'.section))]_vars

\* C30: availableConfirmPartition makes no RPC and changes nothing when the
\* size or the mount point is invalid; otherwise it sends one createPartition
\* whose size is at most availablePartitionSpace(disk), and it removes the
\* row of the disk from available exactly when the requested size is at
\* least that space.
C30_PartitionWithinSpace ==
    [][partitionCall' # partitionCall
       => LET disk == partitionCall'.disk
              size == partitionCall'.size
              space == availablePartitionSpace(disk)
              requested == IF size.prefilled THEN disk.available_size ELSE size.bytes
              Rows(rows) == {getUniqueKey(rows[i]) : i \in DOMAIN rows}
          IN  IF isAddPartitionSizeInvalid(disk, size)
                     \/ isMountPointInvalid(partitionCall'.mountPoint)
              THEN /\ partitionRpcs' = partitionRpcs
                   /\ UNCHANGED <<nodeVars, filesystemVars, cachesetsVars, availableVars>>
              ELSE /\ Len(partitionRpcs') = Len(partitionRpcs) + 1
                   /\ SubSeq(partitionRpcs', 1, Len(partitionRpcs)) = partitionRpcs
                   /\ partitionRpcs'[Len(partitionRpcs')].bytes <= space
                   /\ partitionRpcs'[Len(partitionRpcs')].block_id = disk.block_id
                   /\ Rows(available') =
                          IF requested >= space
                          THEN Rows(available) \ {getUniqueKey(disk)}
                          ELSE Rows(available)]_vars

\* C30 witness: a partition larger than the space of the disk has been asked
\* for, the size sent was clamped and the row of the disk is gone.
C30_Witness ==
    /\ partitionRpcs # <<>>
    /\ partitionCall.at = handled
    /\ ~isAddPartitionSizeInvalid(partitionCall.disk, partitionCall.size)
    /\ partitionCall.size.bytes > partitionRpcs[Len(partitionRpcs)].bytes
    /\ \A i \in DOMAIN available :
           getUniqueKey(available[i]) # getUniqueKey(partitionCall.disk)

\* C31: when the performAction call of NodeDetailsController.actionGo
\* succeeds, its callback raises no error, actionOption and actionError
\* become null, and the location becomes /nodes if and only if the action
\* performed was "delete"; when it fails, actionError holds the error and
\* actionOption is kept.  This holds also when actionCancel or a change of
\* actionOption happened while the call was in flight.
C31_CompletionOfThePerformedAction ==
    [][Len(detailRpcs') < Len(detailRpcs)
       => LET settled == details'.settled
          IN  IF settled.outcome = "resolved"
              THEN /\ ~details'.threw
                   /\ details'.actionOption = "null"
                   /\ details'.actionError = "null"
                   /\ details'.location =
                          IF settled.action = "delete" THEN "/nodes" ELSE details.location
              ELSE /\ details'.actionError = settled.error
                   /\ details'.actionOption = details.actionOption]_vars

\* C32: after updateDisks on a node with a disks array, every disk and every
\* partition of node.disks is in exactly one of the lists available, used
\* and cachesets: in available if and only if isInUse is false for it, in
\* cachesets if and only if it is a cache set; and each one with a mounted
\* filesystem has a row in filesystems.
C32_Placed(entry, block, part, isDisk) ==
    LET inAvailable == Cardinality({r \in DOMAIN available' :
                                        available'[r].name = entry.name})
        inUsed == Cardinality({r \in DOMAIN used' : used'[r] = entry.name})
        inCachesets == IF isDisk
                       THEN Cardinality({r \in DOMAIN cachesets' :
                                             cachesets'[r].cache_set_id = entry.id})
                       ELSE 0
    IN  /\ inAvailable + inUsed + inCachesets = 1
        /\ inAvailable = 1 <=> ~isInUse(entry)
        /\ inCachesets = 1 <=> entry.type = "cache-set"
        /\ hasMountedFilesystem(entry) =>
               \E r \in DOMAIN filesystems' :
                   /\ filesystems'[r].block_id = block
                   /\ filesystems'[r].partition_id = part

C32_EveryDeviceInOneList ==
    [][(node' # node /\ node'.disksIsArray)
       => \A i \in DOMAIN node'.disks :
              LET disk == node'.disks[i] IN
              /\ C32_Placed(disk, disk.id, 0, TRUE)
              /\ \A j \in DOMAIN disk.partitions :
                     C32_Placed(disk.partitions[j], disk.id, disk.partitions[j].id, FALSE)]_vars

\* C32 witness: the disks of a node have arrived and the node has available
\* devices, devices in use and cache sets.
C32_Witness ==
    /\ handled > 0
    /\ node.disksIsArray
    /\ available # <<>>
    /\ used # <<>>
    /\ cachesets # <<>>
    /\ \E i \in DOMAIN node.disks : node.disks[i].partitions # <<>>

\* "The mode of a section that had left NONE is kept over the refresh when a
\* selected row remains, and becomes NONE only when none remains."
C33_ModeKept(mode, newMode, newRows) ==
    mode # SELECTION_MODE.NONE =>
        /\ SelectedCount(newRows) > 0 => newMode = mode
        /\ newMode = SELECTION_MODE.NONE => SelectedCount(newRows) = 0

\* C33: a refresh of node.disks while a section is in SINGLE, MULTI or an
\* action state and a selected row remains after it leaves the section's
\* mode as it was, and the $options of the available rows that are in the
\* list before and after it; the refresh sets the mode to NONE only when no
\* selected row remains.
C33_RefreshKeepsModeAndOptions ==
    [][(\E n \in Nodes : updateDisks(n)) =>
           /\ C33_ModeKept(filesystemMode, filesystemMode', filesystems')
           /\ C33_ModeKept(cachesetsMode, cachesetsMode', cachesets')
           /\ C33_ModeKept(availableMode, availableMode', available')
           /\ (availableMode # SELECTION_MODE.NONE /\ SelectedCount(available') > 0)
                  => OptionsCarried(available, available')]_vars

\* C33 witness: node.disks was refreshed while the available section was in
\* an action state; the selected row is still there with the options typed
\* for the action.
C33_Witness ==
    /\ lastOp.op = "updateDisks"
    /\ lastOp.was
    /\ availableMode \in ActionStates
    /\ \E i \in DOMAIN available :
           available[i].selected /\ available[i].options # "{}"

\* "The tab has no action option unless items are selected and the search
\* shows the selection; with no item selected the option and the progress
\* are cleared."
C34_Cleared(t) ==
    /\ t.actionOption # "null" => (t.selectedItems # <<>> /\ isViewingSelected(t))
    /\ t.selectedItems = <<>> => (t.actionOption = "null" /\ t.actionProgress = NoProgress)

\* C34: when toggleChecked or updateFilters has been run, the tab's action
\* option is non-null only if an item is selected and the search is in
\* view-selected mode, and with no item selected the action option and the
\* action progress are cleared.
C34_ActionOnlyWithSelection ==
    [][(ToggleChecked \/ ClearSearch \/ SearchEdited \/ ShowSelected)
       => C34_Cleared(listTab')]_vars

====
